---- MODULE Spec2Model ----
(***************************************************************************)
(* Verification model of the anomaly / risk monitoring and alerting core   *)
(* of the trading-coach backend (backend-new/app):                         *)
(*   - services/anomaly_monitor.py   AnomalyMonitor (rolling window,       *)
(*                                   z-score / rate-of-change detector)    *)
(*   - workers/monitor.py            TriggerMonitorWorker (risk scorer,    *)
(*                                   threshold check, alert cooldown)      *)
(*   - services/voice_session_manager.py  the single registered session    *)
(*   - api/voice_websocket.py        VoiceSession (speech / interruption)  *)
(*                                                                         *)
(* Each subsystem has its own specification (SpecAnomaly, SpecMonitor,     *)
(* SpecSession, SpecVoice) over its own variables; the variables of the    *)
(* other subsystems stay at their initial value.                           *)
(*                                                                         *)
(* Numbers.  The code computes with Python floats.  The model keeps every  *)
(* quantity as an integer and every comparison as the exact rational       *)
(* comparison (cross-multiplied), except where the IEEE-754 double result  *)
(* is known to differ from the exact one on the modelled inputs, which is  *)
(* modelled as the double result (see DivergenceGt).                       *)
(***************************************************************************)
EXTENDS Integers, Sequences, FiniteSets, TLC

VARIABLES
    \* ---- AnomalyMonitor (services/anomaly_monitor.py) ----
    metric_history,      \* self.metric_history: metric name -> window of values
    last_anomaly_time,   \* self.last_anomaly_time: metric name -> seconds
    window_size,         \* self.window_size
    now,                 \* datetime.utcnow(), in seconds
    ret,                 \* what the last detect_anomalies call returned
    call,                \* the last call, with the state it started from
    recorded,            \* every value ever recorded, per metric, in order
    last_alarm,          \* per metric, when detect_anomalies last returned
                         \* an anomaly (-1: never)
    \* ---- the risk scorer applied to one snapshot ----
    snapshot,            \* a market_context row (a dict: present keys only)
    score,               \* _calculate_risk_score(snapshot), -1 before the call
    \* ---- TriggerMonitorWorker (workers/monitor.py) and its store ----
    market_context,      \* the market_context table: rows, oldest first
    ws_manager,          \* whether a websocket manager was given
    m_pc,                \* where the monitor's cycle is
    m_context,           \* the cycle's context: row id and snapshot (id 0: none)
    m_risk_score,        \* the cycle's risk_score (-1: none)
    write_back,          \* the cycle's write-back: "none", "ok" or "failed"
    cycle_alerts,        \* alert types given to _trigger_alert in the cycle
    last_alert_time,     \* self._last_alert_time (-1: None)
    alert,               \* the alert that last passed the cooldown gate
    \* ---- voice_session_manager.py and the /ws/voice/agent handlers ----
    current_session,     \* the module's current_session (0: None)
    conn_pc,             \* per connection, where its handler is
    conn_session,        \* per connection, its local `session` (0: None)
    session_log,         \* the register / unregister calls made, in order
    \* ---- the registered VoiceSession (voice_websocket.py) ----
    is_speaking,         \* session.is_speaking
    current_tts,         \* session.current_tts (0: None, else the speech
                         \* whose TTS connection it is)
    tts_task,            \* session.tts_task (0: None, else the speech the
                         \* task runs)
    speech,              \* the speak_response invocations
    h_pc,                \* main loop / handle_audio_input: where it is
    h_task,              \* the task handle_audio_input cancelled and awaits
    a_pc,                \* listen_to_stt / process_with_agent: where it is
    a_task,              \* the task process_with_agent awaits
    s_pc,                \* a caller of voice_session_manager.speak
    s_task,              \* the speech that caller awaits
    speak_ret,           \* what speak last returned, as text ("none" before)
    notified,            \* the last agent_speaking value sent ("none" before)
    audio_from,          \* the speech that last sent agent_audio (0: none)
    audio,               \* the last user audio chunk: what it found and what
                         \* has happened since
    h_done,              \* handle_audio_input has just finished its
                         \* interrupt section
    alert_found,         \* the speeches in progress when speak last created
                         \* the speech of its alert
    \* ---- the loops of the three workers ----
    w_pc,                \* per worker, where start() is
    is_running,          \* per worker, self.is_running
    w_failed,            \* per worker, the last cycle raised
    w_retried,           \* per worker, a cycle has started after a failed one
    \* ---- the dispatcher of the anomaly worker ----
    d_ws,                \* self.ws_manager: "None", "broadcast" (a manager
                         \* with a broadcast method) or "other"
    d_agent,             \* self.agent_session_manager is set
    d_now,               \* the clock of the dispatcher (seconds)
    d_stamp,             \* per metric, when an anomaly of it was last handed
                         \* to broadcast (-1: never)
    d_anomalies,         \* anomalies_detected of the cycle
    d_call               \* the cycle's _ping_agent_with_anomalies call

anomalyVars ==
    <<metric_history, last_anomaly_time, window_size, now, ret, call,
      recorded, last_alarm>>

riskVars == <<snapshot, score>>

monitorVars ==
    <<market_context, ws_manager, m_pc, m_context, m_risk_score, write_back,
      cycle_alerts, last_alert_time, alert>>

sessionVars == <<current_session, conn_pc, conn_session, session_log>>

voiceVars == <<is_speaking, current_tts, tts_task, speech, h_pc, h_task,
               a_pc, a_task, s_pc, s_task, speak_ret, notified, audio_from,
               audio, h_done, alert_found>>

workerVars == <<w_pc, is_running, w_failed, w_retried>>

dispatchVars == <<d_ws, d_agent, d_now, d_stamp, d_anomalies, d_call>>

vars == <<anomalyVars, riskVars, monitorVars, sessionVars, voiceVars,
          workerVars, dispatchVars>>

(***************************************************************************)
(* The state of each subsystem after construction                          *)
(***************************************************************************)

\* The metrics the anomaly worker tracks (two of them).
Metrics == {"btc_price", "portfolio_balance"}

\* detect_anomalies returning None.
None == [anomaly_type |-> "None"]

\* window_size given to the constructor (a bound of the model).
WindowSize == 3

\* The AnomalyMonitor after construction.
AnomalyIdle ==
    /\ metric_history = << >>
    /\ last_anomaly_time = << >>
    /\ window_size = WindowSize
    /\ now = 0
    /\ ret = None
    /\ call = [op |-> "init"]
    /\ recorded = [m \in Metrics |-> << >>]
    /\ last_alarm = [m \in Metrics |-> -1]

\* No snapshot is being scored.
RiskIdle ==
    /\ snapshot = << >>
    /\ score = -1

NoContext == [id |-> 0, snapshot |-> << >>]

NoAlert == [alert_type |-> "None"]

\* The monitor worker after construction, with an empty table.
MonitorIdle ==
    /\ market_context = << >>
    /\ ws_manager = FALSE
    /\ m_pc = "idle"
    /\ m_context = NoContext
    /\ m_risk_score = -1
    /\ write_back = "none"
    /\ cycle_alerts = << >>
    /\ last_alert_time = -1
    /\ alert = NoAlert

\* Bound of the model: the voice connections of a run.
MaxConns == 3

Conns == 1..MaxConns

\* No voice connection yet, no session registered.
SessionIdle ==
    /\ current_session = 0
    /\ conn_pc = [c \in Conns |-> "accepted"]
    /\ conn_session = [c \in Conns |-> 0]
    /\ session_log = << >>

\* Bound of the model: the speak_response invocations of a run.
MaxSpeeches == 3

Speeches == 1..MaxSpeeches

\* A speak_response invocation that has not been made.
NoSpeech == [pc |-> "none", task |-> FALSE, cancel |-> FALSE, closed |-> FALSE]

NoAudio == [speaking |-> FALSE, active |-> {}, stopped |-> FALSE, fresh |-> {}]

\* VoiceSession.__init__, nothing said or heard yet.
VoiceIdle ==
    /\ is_speaking = FALSE
    /\ current_tts = 0
    /\ tts_task = 0
    /\ speech = [k \in Speeches |-> NoSpeech]
    /\ h_pc = "recv"
    /\ h_task = 0
    /\ a_pc = "idle"
    /\ a_task = 0
    /\ s_pc = "idle"
    /\ s_task = 0
    /\ speak_ret = "none"
    /\ notified = "none"
    /\ audio_from = 0
    /\ audio = NoAudio
    /\ h_done = FALSE
    /\ alert_found = {}

Workers == {"ingest", "monitor", "anomaly"}

\* The workers as constructed: is_running = False.
WorkersIdle ==
    /\ w_pc = [w \in Workers |-> "init"]
    /\ is_running = [w \in Workers |-> FALSE]
    /\ w_failed = [w \in Workers |-> FALSE]
    /\ w_retried = [w \in Workers |-> FALSE]

\* No _ping_agent_with_anomalies call yet.
NoCall == [at |-> -1]

\* The AnomalyWorker as run_workers and the application leave it: no
\* manager given, nothing dispatched.
DispatchIdle ==
    /\ d_ws = "None"
    /\ d_agent = FALSE
    /\ d_now = 0
    /\ d_stamp = [m \in Metrics |-> -1]
    /\ d_anomalies = << >>
    /\ d_call = NoCall

(***************************************************************************)
(* Generic helpers                                                         *)
(***************************************************************************)
Abs(x) == IF x < 0 THEN -x ELSE x

Min(a, b) == IF a <= b THEN a ELSE b

Max(a, b) == IF a >= b THEN a ELSE b

\* The last k elements of s, in order (all of s when it has at most k).
LastN(s, k) ==
    IF Len(s) <= k THEN s ELSE SubSeq(s, Len(s) - k + 1, Len(s))

\* dict[k] = v on a Python dict modelled as a function on its key set.
Put(f, k, v) == [x \in (DOMAIN f) \cup {k} |-> IF x = k THEN v ELSE f[x]]

RECURSIVE Sum(_)
Sum(s) == IF s = <<>> THEN 0 ELSE Head(s) + Sum(Tail(s))

RECURSIVE SumSq(_)
SumSq(s) == IF s = <<>> THEN 0 ELSE Head(s) * Head(s) + SumSq(Tail(s))

(***************************************************************************)
(* Risk scorer: TriggerMonitorWorker._calculate_risk_score                 *)
(*                                                                         *)
(* A snapshot is a dict, modelled as a function on its present keys.       *)
(* Units: price_change_24h in tenths of a percent, polymarket_avg_odds in  *)
(* hundredths, the weighted components and their sum in tenths.            *)
(***************************************************************************)

\* dict.get(k, d)
Get(ctx, k, d) == IF k \in DOMAIN ctx THEN ctx[k] ELSE d

\* The dict r without the keys in gone.
Drop(r, gone) == [k \in (DOMAIN r) \ gone |-> r[k]]

\* Every snapshot with the given field values, with any of the keys in
\* optional left out.
SnapshotsOf(ss, pc, po, se, hs, optional) ==
    { Drop(r, gone) :
        r \in [sentiment_score : ss, price_change_24h : pc,
               polymarket_avg_odds : po, sentiment : se, hype_score : hs],
        gone \in SUBSET optional }

\* Inputs of the scorer: every step boundary of the three components, values
\* far outside the expected ranges, and missing fields.
ScoreSentimentScores == {-1000, -11, -10, -6, -5, -1, 0, 4, 5, 1000}
ScorePriceChanges == {-10000, -50, -49, -30, -29, -10, -9, -1, 0, 29, 30, 10000}
ScoreOdds == {-50, 0, 14, 15, 24, 25, 29, 30, 35, 36, 50, 65, 75, 76, 85, 86, 150}
Sentiments == {"BULLISH", "BEARISH", "PANIC"}

ScoreSnapshots ==
    SnapshotsOf(ScoreSentimentScores, ScorePriceChanges, ScoreOdds,
                Sentiments, {50},
                {"sentiment_score", "price_change_24h",
                 "polymarket_avg_odds", "sentiment"})

\* The spec's two end-to-end snapshots: {sentiment_score: -12,
\* price_change_24h: -6, polymarket_avg_odds: 0.1, sentiment: "PANIC"} and
\* {sentiment_score: 8, price_change_24h: 4, polymarket_avg_odds: 0.5,
\* sentiment: "BULLISH"}.
ScenarioPanic ==
    [sentiment_score |-> -12, price_change_24h |-> -60,
     polymarket_avg_odds |-> 10, sentiment |-> "PANIC"]

ScenarioBullish ==
    [sentiment_score |-> 8, price_change_24h |-> 40,
     polymarket_avg_odds |-> 50, sentiment |-> "BULLISH"]

\* Sentiment component, from sentiment_score.
sentiment_component(ctx) ==
    LET sentiment_score == Get(ctx, "sentiment_score", 0)
    IN  IF sentiment_score < -10 THEN 90
        ELSE IF sentiment_score < -5 THEN 70
        ELSE IF sentiment_score < 0 THEN 50
        ELSE IF sentiment_score < 5 THEN 30
        ELSE 10

\* Technical component, from price_change_24h (tenths of a percent).
technical_component(ctx) ==
    LET price_change == Get(ctx, "price_change_24h", 0)
    IN  IF price_change <= -50 THEN 100
        ELSE IF price_change <= -30 THEN 80
        ELSE IF price_change <= -10 THEN 60
        ELSE IF price_change < 0 THEN 40
        ELSE IF price_change < 30 THEN 20
        ELSE 10

\* abs(polymarket_avg_odds - 0.5) > th / 100, as the double arithmetic
\* decides it for odds of a whole number of hundredths in -0.5 .. 1.5: the
\* exact comparison, except that abs(0.35 - 0.5) and abs(0.65 - 0.5)
\* evaluate to 0.15000000000000002, which is > 0.15.
DivergenceGt(odds, th) ==
    \/ Abs(odds - 50) > th
    \/ (th = 15 /\ odds \in {35, 65})

\* Prediction-market component, from polymarket_avg_odds (hundredths).
polymarket_component(ctx) ==
    LET polymarket_avg_odds == Get(ctx, "polymarket_avg_odds", 50)
        by_divergence ==
            IF DivergenceGt(polymarket_avg_odds, 35) THEN 90
            ELSE IF DivergenceGt(polymarket_avg_odds, 25) THEN 70
            ELSE IF DivergenceGt(polymarket_avg_odds, 15) THEN 50
            ELSE 30
    IN  IF polymarket_avg_odds < 30 THEN Min(100, by_divergence + 20)
        ELSE by_divergence

\* sentiment_weighted + technical_weighted + polymarket_weighted, in tenths
\* (component * 0.3 is 3 tenths of the component, * 0.4 is 4 tenths).
weighted_sum(ctx) ==
    sentiment_component(ctx) * 3 + technical_component(ctx) * 3
        + polymarket_component(ctx) * 4

\* context.get("sentiment") == "PANIC"
IsPanic(ctx) == "sentiment" \in DOMAIN ctx /\ ctx["sentiment"] = "PANIC"

\* int(x) for x given in tenths: truncation toward zero.
IntOfTenths(t) == IF t >= 0 THEN t \div 10 ELSE -((-t) \div 10)

\* Mutant: the PANIC bonus added after the clamp.
calculate_risk_score_bonus_after_clamp(ctx) ==
    Max(0, Min(100, IntOfTenths(weighted_sum(ctx))))
        + (IF IsPanic(ctx) THEN 15 ELSE 0)

\* Mutant: a PANIC bonus of 10.
calculate_risk_score_bonus_10(ctx) ==
    LET risk_score ==
            IF IsPanic(ctx) THEN Min(1000, weighted_sum(ctx) + 100)
            ELSE weighted_sum(ctx)
    IN  Max(0, Min(100, IntOfTenths(risk_score)))

\* Mutant: no PANIC bonus.
calculate_risk_score_no_bonus(ctx) ==
    Max(0, Min(100, IntOfTenths(weighted_sum(ctx))))

\* _calculate_risk_score(context)
calculate_risk_score(ctx) ==
    LET risk_score ==
            IF IsPanic(ctx) THEN Min(1000, weighted_sum(ctx) + 150)
            ELSE weighted_sum(ctx)
    IN  Max(0, Min(100, IntOfTenths(risk_score)))

InitRisk ==
    /\ AnomalyIdle
    /\ MonitorIdle
    /\ SessionIdle
    /\ VoiceIdle
    /\ WorkersIdle
    /\ DispatchIdle
    /\ snapshot \in ScoreSnapshots \cup {ScenarioPanic, ScenarioBullish}
    /\ score = -1

\* worker._calculate_risk_score(snapshot)
Score ==
    /\ score = -1
    /\ score' = calculate_risk_score(snapshot)
    /\ UNCHANGED snapshot

NextRisk ==
    /\ Score
    /\ UNCHANGED <<anomalyVars, monitorVars, sessionVars, voiceVars,
                   workerVars, dispatchVars>>

SpecRisk == InitRisk /\ [][NextRisk]_vars

(***************************************************************************)
(* Properties of the risk scorer (checked under SpecRisk)                  *)
(***************************************************************************)

\* The snapshot with its sentiment replaced.
WithSentiment(ctx, s) == Put(ctx, "sentiment", s)

\* C5: _calculate_risk_score returns an integer in [0,100] for every
\* snapshot, extreme values and missing fields included.
C5_ScoreRange == score # -1 => score \in 0..100

\* C5 witness: a snapshot extreme in every field, which scores 100.
C5_Witness ==
    /\ score = 100
    /\ Get(snapshot, "sentiment_score", 0) = -1000
    /\ Get(snapshot, "price_change_24h", 0) = -10000
    /\ Get(snapshot, "polymarket_avg_odds", 50) = -50
    /\ IsPanic(snapshot)

\* C6: of two snapshots that differ only in sentiment, one PANIC and one
\* not, the PANIC one scores min(100, score of the other + 15).
C6_PanicBonus ==
    score # -1 =>
        IF IsPanic(snapshot)
        THEN /\ \A s \in Sentiments \ {"PANIC"} :
                  score = Min(100,
                            calculate_risk_score(WithSentiment(snapshot, s)) + 15)
             /\ score = Min(100,
                    calculate_risk_score(Drop(snapshot, {"sentiment"})) + 15)
        ELSE calculate_risk_score(WithSentiment(snapshot, "PANIC"))
                = Min(100, score + 15)

\* C6 witness: a PANIC snapshot whose bonus is cut by the clamp at 100.
C6_Witness ==
    /\ IsPanic(snapshot)
    /\ score = 100
    /\ calculate_risk_score(WithSentiment(snapshot, "BEARISH")) > 85
    /\ calculate_risk_score(WithSentiment(snapshot, "BEARISH")) < 100

\* C22: the snapshot {sentiment_score: -12, price_change_24h: -6,
\* polymarket_avg_odds: 0.1, sentiment: PANIC} scores exactly 100.
C22_PanicScenario ==
    (snapshot = ScenarioPanic /\ score # -1) => score = 100

\* C22 witness: the snapshot was scored; its components are 90, 100 and
\* 100, 97 in all before the PANIC bonus.
C22_Witness ==
    /\ snapshot = ScenarioPanic
    /\ score = 100
    /\ sentiment_component(snapshot) = 90
    /\ technical_component(snapshot) = 100
    /\ polymarket_component(snapshot) = 100
    /\ weighted_sum(snapshot) = 970

\* The scoring function as the specification states it, in exact
\* arithmetic: 0.3 x the sentiment step + 0.3 x the technical step + 0.4 x
\* the prediction-market step (|odds - 0.5| > 0.35 -> 90, > 0.25 -> 70,
\* > 0.15 -> 50, else 30, plus 20 capped at 100 when odds < 0.3), plus 15
\* when the sentiment is PANIC, clamped to an integer in [0, 100].
reference_score(ctx) ==
    LET odds == Get(ctx, "polymarket_avg_odds", 50)
        step == IF Abs(odds - 50) > 35 THEN 90
                ELSE IF Abs(odds - 50) > 25 THEN 70
                ELSE IF Abs(odds - 50) > 15 THEN 50
                ELSE 30
        market == IF odds < 30 THEN Min(100, step + 20) ELSE step
        total == sentiment_component(ctx) * 3 + technical_component(ctx) * 3
                     + market * 4 + (IF IsPanic(ctx) THEN 150 ELSE 0)
    IN  Max(0, Min(100, IntOfTenths(total)))

MaxRows == 2             \* rows the ingest worker inserts in a run
MaxMonitorTime == 30     \* the monitor's clock stops here

\* Program constants.
RiskThreshold == 80
HypeThreshold == 90
alert_cooldown_seconds == 30

\* Snapshots the ingest worker inserts: risk scores 59, 79, 80 and 100, with
\* hype_score 89 or 90, one snapshot (risk score 79) without hype_score, and
\* the calmest snapshot there is (every component at its lowest: 18).
CycleSnapshots ==
    SnapshotsOf({-6}, {-30, 30}, {10, 70}, {"PANIC"}, {89, 90}, {})
        \cup SnapshotsOf({-6}, {30}, {10}, {"PANIC"}, {89}, {"hype_score"})
        \cup SnapshotsOf({5}, {30}, {50}, {"BULLISH"}, {89}, {})

\* The clock of the monitor advances in these steps (seconds).
MonitorTickSteps == {29, 30}

\* Mutant: the thresholds taken as exclusive, as the module docstring has
\* them (risk_score > 80, hype_score > 90).
AlertClassExclusive(risk_score, hype_score) ==
    IF risk_score > RiskThreshold THEN "RISK_CRITICAL"
    ELSE IF hype_score > HypeThreshold THEN "HYPE_EXTREME"
    ELSE "None"

\* STEP 4 of _run_cycle: the alert type, "None" when should_alert is false.
AlertClass(risk_score, hype_score) ==
    IF risk_score >= RiskThreshold THEN "RISK_CRITICAL"
    ELSE IF hype_score >= HypeThreshold THEN "HYPE_EXTREME"
    ELSE "None"

\* Mutant: a failed write-back ends the cycle before the threshold check.
AfterWriteBackAborts(write_ok, alert_type) ==
    IF write_ok THEN alert_type ELSE "None"

\* STEP 3 of _run_cycle: the exception of the write-back is caught and
\* logged, and STEP 4 runs on the risk_score held in memory either way.
AfterWriteBack(write_ok, alert_type) == alert_type

\* Mutant: the update without its `.eq("id", context_id)`, landing on the
\* first row of the table.
update_first_row(table, context_id, risk_score) ==
    [table EXCEPT ![1].risk_score = risk_score]

\* Mutant: the update lands on the row that is the latest when the write
\* is made, not on the row that was read.
update_latest_row(table, context_id, risk_score) ==
    [table EXCEPT ![Len(table)].risk_score = risk_score]

\* Mutant: the update is lost.
update_dropped(table, context_id, risk_score) == table

\* db.update_market_context_risk_score(context_id, risk_score): the row
\* with that id gets the score.
update_market_context_risk_score(table, context_id, risk_score) ==
    [table EXCEPT ![context_id].risk_score = risk_score]

\* Mutant: a cooldown one second short.
AlertOnCooldownShort(last, t) ==
    last # -1 /\ t - last < alert_cooldown_seconds - 1

\* The cooldown test of _trigger_alert.
AlertOnCooldown(last, t) ==
    last # -1 /\ t - last < alert_cooldown_seconds

\* Mutant: a delivery that failed gives the cooldown back.
AfterDeliveryRefunds(last, delivered) ==
    IF delivered THEN last ELSE -1

\* _trigger_alert after the stamp: the except blocks of the broadcast and
\* of the agent call only log, so _last_alert_time stays as stamped
\* whether the delivery went through or not.
AfterDelivery(last, delivered) == last

\* The ingest worker inserts a row; its risk_score is 0 until the monitor
\* writes it.
Ingest(snap) ==
    /\ Len(market_context) < MaxRows
    /\ market_context' =
          Append(market_context, [snapshot |-> snap, risk_score |-> 0])
    /\ UNCHANGED <<ws_manager, m_pc, m_context, m_risk_score, write_back,
                   cycle_alerts, last_alert_time, alert, now>>

\* _run_cycle, STEP 1 and STEP 2: read the latest row (None when the table
\* is empty or the read fails, which ends the cycle) and score it.
CycleStart(read_ok) ==
    /\ m_pc = "idle"
    /\ cycle_alerts' = << >>
    /\ write_back' = "none"
    /\ IF read_ok /\ market_context # << >>
       THEN /\ m_context' =
                  [id |-> Len(market_context),
                   snapshot |-> market_context[Len(market_context)].snapshot]
            /\ m_risk_score' =
                  calculate_risk_score(
                      market_context[Len(market_context)].snapshot)
            /\ m_pc' = "write"
       ELSE /\ m_context' = NoContext
            /\ m_risk_score' = -1
            /\ m_pc' = "idle"
    /\ UNCHANGED <<market_context, ws_manager, last_alert_time, alert, now>>

\* _run_cycle, STEP 3 and STEP 4, and _trigger_alert up to its first await:
\* the write-back (a failure is logged and the cycle goes on), the threshold
\* check, the cooldown gate and the stamp of _last_alert_time.
WriteBack(write_ok) ==
    LET hype_score == Get(m_context.snapshot, "hype_score", 0)
        alert_type ==
            AfterWriteBack(write_ok, AlertClass(m_risk_score, hype_score))
    IN  /\ m_pc = "write"
        /\ market_context' =
              IF write_ok
              THEN update_market_context_risk_score(
                       market_context, m_context.id, m_risk_score)
              ELSE market_context
        /\ write_back' = IF write_ok THEN "ok" ELSE "failed"
        /\ IF alert_type = "None"
           THEN /\ m_pc' = "idle"
                /\ UNCHANGED <<cycle_alerts, last_alert_time, alert>>
           ELSE /\ cycle_alerts' = Append(cycle_alerts, alert_type)
                /\ IF AlertOnCooldown(last_alert_time, now)
                   THEN /\ m_pc' = "idle"
                        /\ UNCHANGED <<last_alert_time, alert>>
                   ELSE /\ last_alert_time' = now
                        /\ alert' = [alert_type |-> alert_type,
                                     risk_score |-> m_risk_score,
                                     hype_score |-> hype_score,
                                     at |-> now,
                                     broadcast |-> "pending",
                                     agent |-> "pending"]
                        /\ m_pc' = "message"
        /\ UNCHANGED <<ws_manager, m_context, m_risk_score, now>>

\* _trigger_alert: generate_alert_message returned: the model's answer, or
\* the fallback text when the completion failed (the failure is caught
\* inside generate_alert_message and the alert goes on either way).
AlertMessage(generated) ==
    /\ m_pc = "message"
    /\ m_pc' = IF ws_manager THEN "broadcast" ELSE "agent"
    /\ alert' = IF ws_manager THEN alert
                ELSE [alert EXCEPT !.broadcast = "skipped"]
    /\ UNCHANGED <<market_context, ws_manager, m_context, m_risk_score,
                   write_back, cycle_alerts, last_alert_time, now>>

\* _trigger_alert: ws_manager.broadcast returned or raised (caught).
Broadcast(sent) ==
    /\ m_pc = "broadcast"
    /\ m_pc' = "agent"
    /\ alert' = [alert EXCEPT !.broadcast = IF sent THEN "sent" ELSE "failed"]
    /\ last_alert_time' = AfterDelivery(last_alert_time, sent)
    /\ UNCHANGED <<market_context, ws_manager, m_context, m_risk_score,
                   write_back, cycle_alerts, now>>

\* _call_agent_with_alert: the POST to /api/agent/chat returned or raised
\* (caught); the cycle ends.
CallAgent(answered) ==
    /\ m_pc = "agent"
    /\ m_pc' = "idle"
    /\ alert' = [alert EXCEPT !.agent = IF answered THEN "sent" ELSE "failed"]
    /\ last_alert_time' = AfterDelivery(last_alert_time, answered)
    /\ UNCHANGED <<market_context, ws_manager, m_context, m_risk_score,
                   write_back, cycle_alerts, now>>

\* Time passes (the sleep between cycles, and the awaits).
MonitorTick(d) ==
    /\ now + d <= MaxMonitorTime
    /\ now' = now + d
    /\ UNCHANGED monitorVars

InitMonitor ==
    /\ AnomalyIdle
    /\ RiskIdle
    /\ SessionIdle
    /\ VoiceIdle
    /\ WorkersIdle
    /\ DispatchIdle
    /\ market_context = << >>
    /\ ws_manager \in BOOLEAN
    /\ m_pc = "idle"
    /\ m_context = NoContext
    /\ m_risk_score = -1
    /\ write_back = "none"
    /\ cycle_alerts = << >>
    /\ last_alert_time = -1
    /\ alert = NoAlert

NextMonitor ==
    /\ \/ \E snap \in CycleSnapshots : Ingest(snap)
       \/ \E read_ok \in BOOLEAN : CycleStart(read_ok)
       \/ \E write_ok \in BOOLEAN : WriteBack(write_ok)
       \/ \E generated \in BOOLEAN : AlertMessage(generated)
       \/ \E sent \in BOOLEAN : Broadcast(sent)
       \/ \E answered \in BOOLEAN : CallAgent(answered)
       \/ \E d \in MonitorTickSteps : MonitorTick(d)
    /\ UNCHANGED <<metric_history, last_anomaly_time, window_size, ret, call,
                   recorded, last_alarm, riskVars, sessionVars, voiceVars,
                   workerVars, dispatchVars>>

SpecMonitor == InitMonitor /\ [][NextMonitor]_vars

(***************************************************************************)
(* Properties of the monitor cycle (checked under SpecMonitor)             *)
(***************************************************************************)

\* The cycle has gone through its threshold check.
Checked == m_context.id # 0 /\ write_back # "none"

C13_FailedWriteStillAlerts ==
    [][(m_pc = "write" /\ write_back' = "failed") =>
          LET risk == calculate_risk_score(m_context.snapshot)
              hype == Get(m_context.snapshot, "hype_score", 0)
          IN  /\ market_context' = market_context
              /\ (risk >= 80 \/ hype >= 90) =>
                    /\ cycle_alerts' = <<AlertClass(risk, hype)>>
                    /\ ~AlertOnCooldown(last_alert_time, now) =>
                          /\ m_pc' = "message"
                          /\ alert'.alert_type = AlertClass(risk, hype)
                          /\ alert'.risk_score = risk
                          /\ alert'.at = now]_vars

\* C13 witness: the write-back failed, the stored row still has risk_score
\* 0, and the RISK_CRITICAL alert of this cycle is on its way.
C13_Witness ==
    /\ Checked
    /\ write_back = "failed"
    /\ market_context[m_context.id].risk_score = 0
    /\ m_risk_score >= 80
    /\ m_pc = "message"
    /\ alert.alert_type = "RISK_CRITICAL"
    /\ alert.risk_score = m_risk_score

\* C21: after a cycle that found a snapshot and whose write-back succeeded,
\* the stored risk_score of that snapshot is the score computed from it,
\* and it is not 0.
C21_StoredScore ==
    (Checked /\ write_back = "ok") =>
        /\ market_context[m_context.id].risk_score =
              calculate_risk_score(market_context[m_context.id].snapshot)
        /\ market_context[m_context.id].risk_score # 0

\* C21 witness: the cycle scored the second row, the calmest snapshot, and
\* stored its 18; the first row was never scored.
C21_Witness ==
    /\ Checked
    /\ write_back = "ok"
    /\ m_context.id = 2
    /\ market_context[2].risk_score = 18
    /\ market_context[1].risk_score = 0

\* C27: an alert passes the cooldown gate of _trigger_alert exactly when
\* no alert passed it before or the latest one that did, of whichever
\* class, passed at least 30 seconds earlier: two alerts that pass are at
\* least 30 seconds apart, and a suppressed one leaves the latest alert and
\* its time as they were.
C27_AlertsThirtyApart ==
    [][(m_pc = "write" /\ cycle_alerts' # << >>) =>
          /\ (m_pc' = "message") <=>
                (alert = NoAlert \/ now - alert.at >= 30)
          /\ (m_pc' = "message") =>
                (alert'.at = now /\ alert'.alert_type = cycle_alerts'[1])
          /\ (m_pc' # "message") =>
                (alert' = alert /\ last_alert_time' = last_alert_time)]_vars

\* C27 witness: 29 seconds after a HYPE_EXTREME alert passed the gate, a
\* cycle raised RISK_CRITICAL and was suppressed: the latest alert is still
\* the HYPE_EXTREME one.
C27_Witness ==
    /\ Checked
    /\ m_pc = "idle"
    /\ cycle_alerts = <<"RISK_CRITICAL">>
    /\ alert.alert_type = "HYPE_EXTREME"
    /\ now - alert.at = 29
    /\ last_alert_time = alert.at

\* C28: while the alert of a cycle is generated, broadcast or sent to the
\* agent, and whenever the cycle has raised an alert class, the write-back
\* of that cycle has finished (succeeded or failed); after a successful
\* write-back the stored row holds the cycle's score whatever became of the
\* alert (broadcast failed or skipped, agent call failed).
C28_WriteBackBeforeAlert ==
    /\ m_pc \in {"message", "broadcast", "agent"} =>
          write_back \in {"ok", "failed"}
    /\ cycle_alerts # << >> => write_back \in {"ok", "failed"}
    /\ (m_context.id # 0 /\ write_back = "ok") =>
          market_context[m_context.id].risk_score = m_risk_score

\* C28 witness: the write-back succeeded, then the broadcast and the agent
\* call of the cycle's alert both failed; the stored row has the score.
C28_Witness ==
    /\ Checked
    /\ write_back = "ok"
    /\ m_pc = "idle"
    /\ cycle_alerts # << >>
    /\ alert.at = now
    /\ alert.broadcast = "failed"
    /\ alert.agent = "failed"
    /\ market_context[m_context.id].risk_score = m_risk_score
    /\ m_risk_score >= 80

\* C37: the cooldown time is stamped when the alert passes the gate, before
\* its message is generated and before any delivery: while the message is
\* generated, broadcast or sent to the agent the stamp is already the time
\* of this alert, it stays so when the broadcast or the agent call fails,
\* and for 30 seconds from that time the gate is closed to every further
\* alert, whatever became of this one.
C37_CooldownConsumedOnFailure ==
    /\ m_pc \in {"message", "broadcast", "agent"} =>
          (alert # NoAlert /\ last_alert_time = alert.at /\ alert.at <= now)
    /\ alert # NoAlert => last_alert_time = alert.at
    /\ (alert # NoAlert /\ now - alert.at < 30) =>
          (last_alert_time # -1 /\ now - last_alert_time < 30)

\* C37 witness: the broadcast and the agent call of a HYPE_EXTREME alert
\* both failed; 29 seconds after it passed the gate a cycle met the risk
\* threshold and attempted nothing: the cooldown of the failed alert held.
C37_Witness ==
    /\ Checked
    /\ m_pc = "idle"
    /\ cycle_alerts = <<"RISK_CRITICAL">>
    /\ m_risk_score >= 80
    /\ alert.alert_type = "HYPE_EXTREME"
    /\ alert.broadcast = "failed"
    /\ alert.agent = "failed"
    /\ now - alert.at = 29
    /\ last_alert_time = alert.at

\* C38: however the inserts of the ingest worker and the steps of the
\* monitor cycle interleave, the risk_score of every stored row is 0, as
\* inserted, or the score computed from that row's own snapshot; a row
\* inserted after the monitor's read is still at 0 while the cycle that
\* read the earlier row is under way or has written.
C38_RowScoreIsOwnOrZero ==
    /\ \A i \in DOMAIN market_context :
          market_context[i].risk_score \in
              {0, calculate_risk_score(market_context[i].snapshot)}
    /\ \A i \in DOMAIN market_context :
          (m_pc # "idle" /\ i > m_context.id) =>
              market_context[i].risk_score = 0

\* C38 witness: the monitor read row 1, row 2 (with another score) was
\* inserted after that read, and the write-back went to row 1: row 2 is
\* still at 0.
C38_Witness ==
    /\ Checked
    /\ write_back = "ok"
    /\ m_context.id = 1
    /\ Len(market_context) = 2
    /\ market_context[1].risk_score = m_risk_score
    /\ m_risk_score # 0
    /\ market_context[2].risk_score = 0
    /\ calculate_risk_score(market_context[2].snapshot) # m_risk_score

(***************************************************************************)
(* voice_session_manager: the registered session, and the handlers of the  *)
(* /ws/voice/agent connections that register and unregister.               *)
(*                                                                         *)
(* A session is identified by the connection that created it (each handler *)
(* creates at most one VoiceSession); 0 stands for None.                   *)
(***************************************************************************)

\* Mutant: the first registration wins while a session is registered.
RegisterFirstWins(cur, session) == IF cur = 0 THEN session ELSE cur

\* register_session(session): current_session afterwards.
Register(cur, session) == session

\* Mutant: unregister_session clears whatever is registered.
UnregisterAlways(cur, session) == 0

\* unregister_session(session): current_session afterwards
\* (`current_session is session`; with both None the assignment changes
\* nothing).
Unregister(cur, session) == IF cur = session THEN 0 ELSE cur

\* The handler received its first message (or the receive raised): anything
\* but "start" ends the handler with no session; "start" creates the
\* VoiceSession.
FirstMessage(c, is_start) ==
    /\ conn_pc[c] = "accepted"
    /\ conn_pc' = [conn_pc EXCEPT ![c] = IF is_start THEN "starting"
                                         ELSE "closing"]
    /\ conn_session' = [conn_session EXCEPT ![c] = IF is_start THEN c ELSE 0]
    /\ UNCHANGED <<current_session, session_log>>

\* session.start() returned: on failure the handler sends an error and
\* returns.
SessionStart(c, success) ==
    /\ conn_pc[c] = "starting"
    /\ conn_pc' = [conn_pc EXCEPT ![c] = IF success THEN "started"
                                         ELSE "closing"]
    /\ UNCHANGED <<current_session, conn_session, session_log>>

\* The handler sent "ready" and registered its session; or the send raised
\* (the client is gone) and the handler never registers.
Ready(c, sent) ==
    /\ conn_pc[c] = "started"
    /\ IF sent
       THEN /\ current_session' = Register(current_session, conn_session[c])
            /\ session_log' =
                  Append(session_log, <<"register", conn_session[c]>>)
            /\ conn_pc' = [conn_pc EXCEPT ![c] = "registered"]
       ELSE /\ conn_pc' = [conn_pc EXCEPT ![c] = "closing"]
            /\ UNCHANGED <<current_session, session_log>>
    /\ UNCHANGED conn_session

\* The main loop ends: "stop", a disconnect or an error.
Leave(c) ==
    /\ conn_pc[c] = "registered"
    /\ conn_pc' = [conn_pc EXCEPT ![c] = "closing"]
    /\ UNCHANGED <<current_session, conn_session, session_log>>

\* The handler's finally block: unregister_session(session), then the
\* cleanup of the session.
Finally(c) ==
    /\ conn_pc[c] = "closing"
    /\ current_session' = Unregister(current_session, conn_session[c])
    /\ session_log' = Append(session_log, <<"unregister", conn_session[c]>>)
    /\ conn_pc' = [conn_pc EXCEPT ![c] = "closed"]
    /\ UNCHANGED conn_session

InitSession ==
    AnomalyIdle /\ RiskIdle /\ MonitorIdle /\ SessionIdle /\ VoiceIdle
    /\ WorkersIdle
    /\ DispatchIdle

NextSession ==
    /\ \/ \E c \in Conns, is_start \in BOOLEAN : FirstMessage(c, is_start)
       \/ \E c \in Conns, success \in BOOLEAN : SessionStart(c, success)
       \/ \E c \in Conns, sent \in BOOLEAN : Ready(c, sent)
       \/ \E c \in Conns : Leave(c)
       \/ \E c \in Conns : Finally(c)
    /\ UNCHANGED <<anomalyVars, riskVars, monitorVars, voiceVars,
                   workerVars, dispatchVars>>

SpecSession == InitSession /\ [][NextSession]_vars

(***************************************************************************)
(* Properties of the session registry (checked under SpecSession)          *)
(***************************************************************************)

\* The positions of the log at which session x was registered.
RegisteredAt(x) ==
    { i \in 1..Len(session_log) : session_log[i] = <<"register", x>> }

\* The positions of the log at which unregister_session(x) was called.
UnregisteredAt(x) ==
    { i \in 1..Len(session_log) : session_log[i] = <<"unregister", x>> }

\* The positions of all registrations.
Registrations ==
    { i \in 1..Len(session_log) : session_log[i][1] = "register" }

\* C8: if session A is registered and then session B is registered, B is
\* the current session, and it still is after a later unregister_session(A)
\* (as long as B itself has not unregistered and no other session has
\* registered since).
C8_ReplaceKeepsNewer ==
    \A a \in Conns : \A b \in Conns \ {a} :
      \A i \in RegisteredAt(a), j \in RegisteredAt(b) :
        ( /\ i < j
          /\ \A k \in UnregisteredAt(a) : k > j   \* A still registered at j
          /\ \A k \in Registrations : k <= j     \* B is the last to register
          /\ UnregisteredAt(b) = {} )
        => current_session = b

\* C8 witness: A registered, B registered, then A unregistered, and B is
\* the current session.
C8_Witness ==
    \E a \in Conns : \E b \in Conns \ {a} :
      /\ Len(session_log) = 3
      /\ session_log[1] = <<"register", a>>
      /\ session_log[2] = <<"register", b>>
      /\ session_log[3] = <<"unregister", a>>
      /\ current_session = b

\* C9: after any interleaving of the handlers' register and unregister
\* calls, the current session is the most recently registered one unless
\* that session has since unregistered, in which case none is registered:
\* an earlier session is never restored, and the unregister of a handler
\* that never registered clears nothing.
C9_LastRegisterWins ==
    IF Registrations = {} THEN current_session = 0
    ELSE LET j == CHOOSE k \in Registrations :
                      \A l \in Registrations : l <= k
             latest == session_log[j][2]
         IN  current_session =
                IF \E k \in UnregisteredAt(latest) : k > j THEN 0 ELSE latest

\* C9 witness: three handlers; the first registered and is replaced, the
\* second registered last and is current, and the third, which never
\* registered, has run its unregister after both registrations.
C9_Witness ==
    \E a \in Conns : \E b \in Conns \ {a} :
      /\ current_session = b
      /\ RegisteredAt(a) # {} /\ RegisteredAt(b) # {}
      /\ \E c \in Conns \ {a, b} :
            /\ conn_pc[c] = "closed"
            /\ RegisteredAt(c) = {}
            /\ conn_session[c] = c
            /\ \E k \in UnregisteredAt(c) : \A j \in Registrations : j < k

(***************************************************************************)
(* VoiceSession: speech and its interruption.                              *)
(*                                                                         *)
(* One step of the model is what a coroutine does between two awaits that  *)
(* can suspend it (a TTS connect or close, the agent's run, the next audio *)
(* chunk, awaiting a task); a send to the frontend is part of the step     *)
(* that makes it.  Three coroutines act on the session: the main loop with *)
(* handle_audio_input, the STT listener with process_with_agent, and a     *)
(* caller of voice_session_manager.speak; each speak_response invocation   *)
(* ("speech") runs as a task of its own or inside the caller of speak.     *)
(*                                                                         *)
(* The event loop runs what is already scheduled (the first step of a new  *)
(* task, the resumption of a cancelled task, the awaiter of a task that is *)
(* done) before it delivers the result of any input or output that is      *)
(* still awaited: the steps of the latter kind are guarded by ~Scheduled.  *)
(***************************************************************************)

\* The session in which connection 1 has registered.
SessionRegistered ==
    /\ current_session = 1
    /\ conn_pc = [c \in Conns |-> IF c = 1 THEN "registered" ELSE "accepted"]
    /\ conn_session = [c \in Conns |-> IF c = 1 THEN 1 ELSE 0]
    /\ session_log = << <<"register", 1>> >>

\* Speech k is between `self.is_speaking = True` and the end of its stream.
Running(k) == speech[k].pc \in {"connect", "stream"}

\* `self.tts_task and not self.tts_task.done()`
TaskLive(t) == t # 0 /\ speech[t].pc # "done"

\* The next speak_response invocation.
NextSpeech == Cardinality({k \in Speeches : speech[k].pc # "none"}) + 1

\* asyncio.create_task(self.speak_response(...)) (as_task), or the coroutine
\* awaited by the caller itself.
NewSpeech(as_task) ==
    [speech EXCEPT ![NextSpeech] =
        [pc |-> "created", task |-> as_task, cancel |-> FALSE,
         closed |-> FALSE]]

\* Task.cancel(): no effect on a task that is done.
CancelTask(t) ==
    IF TaskLive(t) THEN [speech EXCEPT ![t].cancel = TRUE] ELSE speech

\* Some coroutine is scheduled to run without waiting for input or output.
Scheduled ==
    \/ \E k \in Speeches : speech[k].pc = "created"
    \/ \E k \in Speeches : speech[k].cancel
    \/ h_pc = "await_task" /\ speech[h_task].pc = "done"
    \/ a_pc = "cancel_wait" /\ speech[a_task].pc = "done"
                            /\ NextSpeech <= MaxSpeeches
    \/ a_pc = "await_tts" /\ speech[a_task].pc = "done"
    \/ s_pc \in {"inline", "alert_await"} /\ speech[s_task].pc = "done"

\* An agent_speaking false message went out.
Stopped(a) == [a EXCEPT !.stopped = TRUE]

\* handle_audio_input, up to its first await: no interrupt (and on to the
\* STT), or the interrupt begins by closing current_tts, or, with no
\* current_tts, by cancelling tts_task.
handle_audio_input ==
    /\ UNCHANGED alert_found
    /\ current_session # 0
    /\ ~Scheduled
    /\ h_pc = "recv"
    /\ audio' = [speaking |-> is_speaking,
                 active |-> {k \in Speeches : Running(k)},
                 stopped |-> FALSE, fresh |-> {}]
    /\ IF is_speaking /\ TaskLive(tts_task)
       THEN IF current_tts # 0
            THEN /\ speech' = [speech EXCEPT ![current_tts].closed = TRUE]
                 /\ h_pc' = "closing_tts"
                 /\ UNCHANGED h_task
            ELSE /\ speech' = CancelTask(tts_task)
                 /\ h_task' = tts_task
                 /\ h_pc' = "await_task"
       ELSE UNCHANGED <<speech, h_pc, h_task>>
    /\ h_done' = ~(is_speaking /\ TaskLive(tts_task))
    /\ UNCHANGED <<is_speaking, current_tts, tts_task, a_pc, a_task, s_pc,
                   s_task, speak_ret, notified, audio_from>>

\* handle_audio_input after `await self.current_tts.close()`: clears
\* current_tts, cancels tts_task and awaits it.
handle_audio_input_closed ==
    /\ UNCHANGED alert_found
    /\ ~Scheduled
    /\ h_pc = "closing_tts"
    /\ current_tts' = 0
    /\ speech' = CancelTask(tts_task)
    /\ h_task' = tts_task
    /\ h_pc' = "await_task"
    /\ h_done' = FALSE
    /\ UNCHANGED <<is_speaking, tts_task, a_pc, a_task, s_pc, s_task,
                   speak_ret, notified, audio_from, audio>>

\* handle_audio_input after `await self.tts_task`: is_speaking = False and
\* the agent_speaking false message.
handle_audio_input_awaited ==
    /\ UNCHANGED alert_found
    /\ h_pc = "await_task"
    /\ speech[h_task].pc = "done"
    /\ is_speaking' = FALSE
    /\ notified' = FALSE
    /\ audio' = Stopped(audio)
    /\ h_pc' = "recv"
    /\ h_done' = TRUE
    /\ UNCHANGED <<current_tts, tts_task, speech, h_task, a_pc, a_task, s_pc,
                   s_task, speak_ret, audio_from>>

\* listen_to_stt got a final transcript: process_with_agent starts the
\* agent.
process_with_agent ==
    /\ UNCHANGED alert_found
    /\ current_session # 0
    /\ ~Scheduled
    /\ a_pc = "idle"
    /\ a_pc' = "thinking"
    /\ h_done' = FALSE
    /\ UNCHANGED <<is_speaking, current_tts, tts_task, speech, h_pc, h_task,
                   a_task, s_pc, s_task, speak_ret, notified, audio_from,
                   audio>>

\* process_with_agent after the agent's run: with a response text, cancel a
\* live tts_task and await it, or create the task of the new speech; with
\* none (or after an error), done.
process_with_agent_answered(has_text) ==
    /\ UNCHANGED alert_found
    /\ ~Scheduled
    /\ a_pc = "thinking"
    /\ IF ~has_text
       THEN /\ a_pc' = "idle"
            /\ UNCHANGED <<speech, tts_task, a_task>>
       ELSE IF TaskLive(tts_task)
            THEN /\ speech' = CancelTask(tts_task)
                 /\ a_task' = tts_task
                 /\ a_pc' = "cancel_wait"
                 /\ UNCHANGED tts_task
            ELSE /\ NextSpeech <= MaxSpeeches
                 /\ speech' = NewSpeech(TRUE)
                 /\ tts_task' = NextSpeech
                 /\ a_task' = NextSpeech
                 /\ a_pc' = "await_tts"
    /\ h_done' = FALSE
    /\ UNCHANGED <<is_speaking, current_tts, h_pc, h_task, s_pc, s_task,
                   speak_ret, notified, audio_from, audio>>

\* process_with_agent after awaiting the task it cancelled: the task of the
\* new speech.
process_with_agent_cancelled ==
    /\ UNCHANGED alert_found
    /\ a_pc = "cancel_wait"
    /\ speech[a_task].pc = "done"
    /\ NextSpeech <= MaxSpeeches
    /\ speech' = NewSpeech(TRUE)
    /\ tts_task' = NextSpeech
    /\ a_task' = NextSpeech
    /\ a_pc' = "await_tts"
    /\ h_done' = FALSE
    /\ UNCHANGED <<is_speaking, current_tts, h_pc, h_task, s_pc, s_task,
                   speak_ret, notified, audio_from, audio>>

\* process_with_agent after `await self.tts_task` (ended or cancelled).
process_with_agent_spoken ==
    /\ UNCHANGED alert_found
    /\ a_pc = "await_tts"
    /\ speech[a_task].pc = "done"
    /\ a_pc' = "idle"
    /\ h_done' = FALSE
    /\ UNCHANGED <<is_speaking, current_tts, tts_task, speech, h_pc, h_task,
                   a_task, s_pc, s_task, speak_ret, notified, audio_from,
                   audio>>

\* Mutant: speak goes on without testing current_session.
HasSessionUntested(cur) == TRUE

\* The test `if not current_session` of speak, negated.
HasSession(cur) == cur # 0

\* voice_session_manager.speak(text, alert_context): False with no session;
\* with an alert_context, process_system_alert starts the agent; without,
\* the agent_text message and speak_response awaited by speak itself.
speak(with_context) ==
    /\ ~Scheduled
    /\ s_pc = "idle"
    /\ IF ~HasSession(current_session)
       THEN /\ speak_ret' = "False"
            /\ UNCHANGED <<speech, s_pc, s_task>>
       ELSE /\ speak_ret' = "none"
            /\ IF with_context
               THEN /\ s_pc' = "alert_thinking"
                    /\ UNCHANGED <<speech, s_task>>
               ELSE /\ NextSpeech <= MaxSpeeches
                    /\ speech' = NewSpeech(FALSE)
                    /\ s_task' = NextSpeech
                    /\ s_pc' = "inline"
    /\ alert_found' = IF HasSession(current_session) /\ ~with_context
                      THEN {k \in Speeches : Running(k)}
                      ELSE alert_found
    /\ h_done' = FALSE
    /\ UNCHANGED <<is_speaking, current_tts, tts_task, h_pc, h_task, a_pc,
                   a_task, notified, audio_from, audio>>

\* process_system_alert after the agent's run: with a response text, the
\* task of the new speech replaces tts_task; with none (or after an error)
\* it returns, and speak returns True.
process_system_alert(has_text) ==
    /\ ~Scheduled
    /\ s_pc = "alert_thinking"
    /\ IF has_text
       THEN /\ NextSpeech <= MaxSpeeches
            /\ speech' = NewSpeech(TRUE)
            /\ tts_task' = NextSpeech
            /\ s_task' = NextSpeech
            /\ s_pc' = "alert_await"
            /\ alert_found' = {k \in Speeches : Running(k)}
            /\ UNCHANGED speak_ret
       ELSE /\ s_pc' = "idle"
            /\ speak_ret' = "True"
            /\ UNCHANGED <<speech, tts_task, s_task, alert_found>>
    /\ h_done' = FALSE
    /\ UNCHANGED <<is_speaking, current_tts, h_pc, h_task, a_pc, a_task,
                   notified, audio_from, audio>>

\* speak returns True once the speech it awaits is over.
speak_returns ==
    /\ UNCHANGED alert_found
    /\ s_pc \in {"inline", "alert_await"}
    /\ speech[s_task].pc = "done"
    /\ s_pc' = "idle"
    /\ speak_ret' = "True"
    /\ h_done' = FALSE
    /\ UNCHANGED <<is_speaking, current_tts, tts_task, speech, h_pc, h_task,
                   a_pc, a_task, s_task, notified, audio_from, audio>>

\* speak_response starts: is_speaking = True, the agent_speaking true
\* message, and the connect of a fresh TTS connection.
speak_response(k) ==
    /\ UNCHANGED alert_found
    /\ speech[k].pc = "created"
    /\ ~speech[k].cancel
    /\ is_speaking' = TRUE
    /\ notified' = TRUE
    /\ speech' = [speech EXCEPT ![k].pc = "connect"]
    /\ audio' = IF audio.speaking /\ ~audio.stopped
                THEN [audio EXCEPT !.fresh = @ \cup {k}]
                ELSE audio
    /\ h_done' = FALSE
    /\ UNCHANGED <<current_tts, tts_task, h_pc, h_task, a_pc, a_task, s_pc,
                   s_task, speak_ret, audio_from>>

\* The `except` branches and the end of the stream all clear is_speaking
\* and send agent_speaking false; the finally block then closes the TTS
\* connection.
EndOfSpeech(k) ==
    /\ is_speaking' = FALSE
    /\ notified' = FALSE
    /\ audio' = Stopped(audio)
    /\ speech' = [speech EXCEPT ![k].pc = "closing", ![k].cancel = FALSE]

\* speak_response after `await tts.connect(...)`: current_tts = tts and the
\* text is sent; or the connect (or the send) raised.
speak_response_connected(k, ok) ==
    /\ UNCHANGED alert_found
    /\ ~Scheduled
    /\ speech[k].pc = "connect"
    /\ ~speech[k].cancel
    /\ IF ok
       THEN /\ current_tts' = k
            /\ speech' = [speech EXCEPT ![k].pc = "stream"]
            /\ UNCHANGED <<is_speaking, notified, audio>>
       ELSE /\ EndOfSpeech(k)
            /\ UNCHANGED current_tts
    /\ h_done' = FALSE
    /\ UNCHANGED <<tts_task, h_pc, h_task, a_pc, a_task, s_pc, s_task,
                   speak_ret, audio_from>>

\* Mutant: the streaming loop without its test of the flag.
InterruptedUnchecked(flag) == FALSE

\* `if not self.is_speaking: break` at the head of the streaming loop.
Interrupted(flag) == ~flag

\* speak_response got an audio chunk: it breaks out of the loop when
\* is_speaking was cleared, else sends the chunk as agent_audio.
speak_response_chunk(k) ==
    /\ UNCHANGED alert_found
    /\ ~Scheduled
    /\ speech[k].pc = "stream"
    /\ ~speech[k].cancel
    /\ ~speech[k].closed
    /\ IF Interrupted(is_speaking)
       THEN /\ EndOfSpeech(k)
            /\ UNCHANGED audio_from
       ELSE /\ audio_from' = k
            /\ UNCHANGED <<is_speaking, notified, audio, speech>>
    /\ h_done' = FALSE
    /\ UNCHANGED <<current_tts, tts_task, h_pc, h_task, a_pc, a_task, s_pc,
                   s_task, speak_ret>>

\* The audio stream of speak_response is over: all chunks were received, or
\* the connection was closed under it or failed.
speak_response_end(k) ==
    /\ UNCHANGED alert_found
    /\ ~Scheduled
    /\ speech[k].pc = "stream"
    /\ ~speech[k].cancel
    /\ EndOfSpeech(k)
    /\ h_done' = FALSE
    /\ UNCHANGED <<current_tts, tts_task, h_pc, h_task, a_pc, a_task, s_pc,
                   s_task, speak_ret, audio_from>>

\* The cancelled task resumes with CancelledError: a task that never ran
\* ends at once; inside the try block the handler clears is_speaking and
\* sends agent_speaking false; inside the finally block the rest of that
\* block is skipped.
speak_response_cancelled(k) ==
    /\ UNCHANGED alert_found
    /\ speech[k].cancel
    /\ speech[k].pc \in {"created", "connect", "stream", "closing"}
    /\ IF speech[k].pc \in {"connect", "stream"}
       THEN EndOfSpeech(k)
       ELSE /\ speech' = [speech EXCEPT ![k].pc = "done", ![k].cancel = FALSE]
            /\ UNCHANGED <<is_speaking, notified, audio>>
    /\ h_done' = FALSE
    /\ UNCHANGED <<current_tts, tts_task, h_pc, h_task, a_pc, a_task, s_pc,
                   s_task, speak_ret, audio_from>>

\* speak_response's finally block after `await tts.close()`.
speak_response_finally(k) ==
    /\ UNCHANGED alert_found
    /\ ~Scheduled
    /\ speech[k].pc = "closing"
    /\ ~speech[k].cancel
    /\ current_tts' = 0
    /\ is_speaking' = FALSE
    /\ speech' = [speech EXCEPT ![k].pc = "done"]
    /\ h_done' = FALSE
    /\ UNCHANGED <<tts_task, h_pc, h_task, a_pc, a_task, s_pc, s_task,
                   speak_ret, notified, audio_from, audio>>

InitVoice ==
    /\ AnomalyIdle
    /\ RiskIdle
    /\ MonitorIdle
    /\ SessionIdle \/ SessionRegistered
    /\ VoiceIdle
    /\ WorkersIdle
    /\ DispatchIdle

NextVoice ==
    /\ \/ handle_audio_input
       \/ handle_audio_input_closed
       \/ handle_audio_input_awaited
       \/ process_with_agent
       \/ \E has_text \in BOOLEAN : process_with_agent_answered(has_text)
       \/ process_with_agent_cancelled
       \/ process_with_agent_spoken
       \/ \E with_context \in BOOLEAN : speak(with_context)
       \/ \E has_text \in BOOLEAN : process_system_alert(has_text)
       \/ speak_returns
       \/ \E k \in Speeches : speak_response(k)
       \/ \E k \in Speeches, ok \in BOOLEAN : speak_response_connected(k, ok)
       \/ \E k \in Speeches : speak_response_chunk(k)
       \/ \E k \in Speeches : speak_response_end(k)
       \/ \E k \in Speeches : speak_response_cancelled(k)
       \/ \E k \in Speeches : speak_response_finally(k)
    /\ UNCHANGED <<anomalyVars, riskVars, monitorVars, sessionVars,
                   workerVars, dispatchVars>>

SpecVoice == InitVoice /\ [][NextVoice]_vars

(***************************************************************************)
(* Properties of the interruption (checked under SpecVoice)                *)
(***************************************************************************)

\* C10: whenever user audio arrives while the session is speaking, then by
\* the end of handle_audio_input's interrupt section every synthesis that
\* was active is over, the session is idle (is_speaking false, no current
\* TTS connection), and agent_speaking false has been sent, with no new
\* synthesis begun before that message.
C10_InterruptThenIdle ==
    (h_done /\ audio.speaking) =>
        /\ \A k \in audio.active : speech[k].pc = "done"
        /\ ~is_speaking
        /\ current_tts = 0
        /\ audio.stopped
        /\ audio.fresh = {}

\* C11: while the speech of an alert routed by speak is being synthesized
\* or streamed, no narration that was in progress when that speech was
\* created is still in progress: it was interrupted first.
C11_AlertInterruptsNarration ==
    (s_pc \in {"inline", "alert_await"} /\ Running(s_task)) =>
        \A k \in alert_found : ~Running(k)

\* What the frontend and the session see of the voice pipeline: the
\* speeches, the agent_speaking messages and the audio sent.
Sent == <<speech, notified, audio_from, is_speaking, current_tts, tts_task,
          audio>>

\* C14: speak returns False, with nothing sent and no speech begun, when no
\* session is registered; it returns True only after the registered
\* session's own method (process_system_alert, or send_message and
\* speak_response) took the text and returned.
C14_SpeakResult ==
    /\ [](current_session = 0 =>
             (s_pc = "idle" /\ s_task = 0 /\ speak_ret # "True"))
    /\ [][(speak_ret' = "False" /\ speak_ret # "False") =>
             (current_session = 0 /\ UNCHANGED Sent)]_vars
    /\ [][(speak_ret' = "True" /\ speak_ret # "True") =>
             /\ current_session # 0
             /\ \/ s_pc = "alert_thinking"
                \/ /\ s_pc \in {"inline", "alert_await"}
                   /\ speech[s_task].pc = "done"]_vars

\* C14 witness: speak returned True and the audio the frontend last got
\* came from the speech speak awaited.
C14_Witness ==
    /\ speak_ret = "True"
    /\ current_session # 0
    /\ s_task # 0
    /\ audio_from = s_task

InFlight(k) == speech[k].pc \in {"connect", "stream", "closing"}

\* C36: at most one speak_response synthesis is in flight on the session,
\* is_speaking is true while a synthesis streams, and current_tts is the
\* connection of the synthesis that streams (no earlier synthesis has
\* cleared or replaced it).
C36_OneSynthesisInFlight ==
    /\ Cardinality({k \in Speeches : InFlight(k)}) <= 1
    /\ \A k \in Speeches :
          (speech[k].pc = "stream" /\ ~speech[k].cancel) =>
              (is_speaking /\ current_tts \in {0, k})

(***************************************************************************)
(* The loops of the three workers (DataIngestWorker, TriggerMonitorWorker, *)
(* AnomalyWorker): start() runs a cycle, catches what it raises, sleeps    *)
(* the interval and tests is_running again.  A cycle is modelled here by   *)
(* its outcome only.                                                       *)
(***************************************************************************)

\* Mutant: the loop does not catch what a cycle raises.
AfterCycleUncaught(raised) == IF raised THEN "exited" ELSE "sleep"

\* Where start() goes after _run_cycle: `except Exception` logs, and the
\* sleep follows either way.
AfterCycle(raised) == "sleep"

\* start(): is_running = True; the ingest worker first fetches the Reddit
\* posts.
WorkerStart(w) ==
    /\ w_pc[w] = "init"
    /\ is_running' = [is_running EXCEPT ![w] = TRUE]
    /\ w_pc' = [w_pc EXCEPT ![w] = IF w = "ingest" THEN "startup"
                                   ELSE "loop"]
    /\ UNCHANGED <<w_failed, w_retried>>

\* The ingest worker's fetch at startup, its failure caught and logged.
IngestStartup(fetched) ==
    /\ w_pc["ingest"] = "startup"
    /\ w_pc' = [w_pc EXCEPT !["ingest"] = "loop"]
    /\ UNCHANGED <<is_running, w_failed, w_retried>>

\* Mutant: `while True:`.
LoopConditionForever(running) == TRUE

\* The condition of start()'s loop: the flag that stop() clears.
LoopCondition(running) == running

\* `while self.is_running:` a cycle starts, or the loop ends.
LoopTest(w) ==
    /\ w_pc[w] = "loop"
    /\ IF LoopCondition(is_running[w])
       THEN /\ w_pc' = [w_pc EXCEPT ![w] = "cycle"]
            /\ w_retried' = [w_retried EXCEPT ![w] = @ \/ w_failed[w]]
            /\ w_failed' = [w_failed EXCEPT ![w] = FALSE]
       ELSE /\ w_pc' = [w_pc EXCEPT ![w] = "exited"]
            /\ UNCHANGED <<w_failed, w_retried>>
    /\ UNCHANGED is_running

\* `await self._run_cycle()` returned or raised.
RunCycle(w, raised) ==
    /\ w_pc[w] = "cycle"
    /\ w_failed' = [w_failed EXCEPT ![w] = raised]
    /\ w_pc' = [w_pc EXCEPT ![w] = AfterCycle(raised)]
    /\ UNCHANGED <<is_running, w_retried>>

\* `await asyncio.sleep(self.interval_seconds)` returned.
Slept(w) ==
    /\ w_pc[w] = "sleep"
    /\ w_pc' = [w_pc EXCEPT ![w] = "loop"]
    /\ UNCHANGED <<is_running, w_failed, w_retried>>

\* stop(): is_running = False.
WorkerStop(w) ==
    /\ is_running[w]
    /\ is_running' = [is_running EXCEPT ![w] = FALSE]
    /\ UNCHANGED <<w_pc, w_failed, w_retried>>

\* The shutdown signal: run_*_worker catches KeyboardInterrupt out of
\* start() and calls stop().
Interrupt(w) ==
    /\ w_pc[w] \in {"startup", "loop", "cycle", "sleep"}
    /\ w_pc' = [w_pc EXCEPT ![w] = "exited"]
    /\ is_running' = [is_running EXCEPT ![w] = FALSE]
    /\ UNCHANGED <<w_failed, w_retried>>

InitWorkers ==
    /\ AnomalyIdle
    /\ RiskIdle
    /\ MonitorIdle
    /\ SessionIdle
    /\ VoiceIdle
    /\ WorkersIdle
    /\ DispatchIdle

\* What a running loop does by itself.
LoopStep(w) == LoopTest(w) \/ Slept(w)

NextWorkers ==
    /\ \/ \E w \in Workers : WorkerStart(w)
       \/ \E fetched \in BOOLEAN : IngestStartup(fetched)
       \/ \E w \in Workers : LoopTest(w)
       \/ \E w \in Workers, raised \in BOOLEAN : RunCycle(w, raised)
       \/ \E w \in Workers : Slept(w)
       \/ \E w \in Workers : WorkerStop(w)
       \/ \E w \in Workers : Interrupt(w)
    /\ UNCHANGED <<anomalyVars, riskVars, monitorVars, sessionVars,
                   voiceVars, dispatchVars>>

\* The sleep returns and the loop condition is tested: the event loop
\* resumes the worker's task.
SpecWorkers ==
    /\ InitWorkers
    /\ [][NextWorkers]_vars
    /\ \A w \in Workers : WF_vars(LoopStep(w) /\ UNCHANGED
            <<anomalyVars, riskVars, monitorVars, sessionVars, voiceVars,
              dispatchVars>>)

(***************************************************************************)
(* Properties of the worker loops (checked under SpecWorkers)              *)
(***************************************************************************)

\* C12: in each worker loop, after a cycle that raised, another cycle
\* eventually starts unless the worker is stopped.
C12_LoopSurvivesFailure ==
    \A w \in Workers :
        w_failed[w] ~> (w_pc[w] = "cycle" \/ ~is_running[w])

\* C12 witness: every worker has started a cycle after a failed one.
C12_Witness ==
    \A w \in Workers : w_retried[w] /\ w_pc[w] = "cycle" /\ is_running[w]

\* stop() has been called on worker w while its start() was under way.
StopCalled(w) == ~is_running[w] /\ w_pc[w] \notin {"init", "exited"}

\* C39: once stop() has been called on a worker whose start() is under way,
\* no step of the loop begins a cycle; a cycle in progress can only end,
\* into the sleep; the flag stays false; and from the sleep or the loop
\* test start() returns.
C39_StopEndsLoop ==
    /\ [][\A w \in Workers :
            (StopCalled(w) /\ w_pc[w] # "cycle") => w_pc'[w] # "cycle"]_vars
    /\ [][\A w \in Workers :
            (StopCalled(w) /\ w_pc[w] = "cycle") =>
                w_pc'[w] \in {"cycle", "sleep", "exited"}]_vars
    /\ [][\A w \in Workers : StopCalled(w) => ~is_running'[w]]_vars
    /\ \A w \in Workers :
          (StopCalled(w) /\ w_pc[w] \in {"loop", "sleep"}) ~>
              (w_pc[w] = "exited")

\* C39 witness: stop() reached the monitor in its sleep after a failed
\* cycle, the anomaly worker in the middle of a cycle and the ingest
\* worker at its loop test.
C39_Witness ==
    /\ StopCalled("monitor") /\ w_pc["monitor"] = "sleep" /\ w_failed["monitor"]
    /\ StopCalled("anomaly") /\ w_pc["anomaly"] = "cycle"
    /\ StopCalled("ingest") /\ w_pc["ingest"] = "loop"

(***************************************************************************)
(* The dispatcher of the anomaly worker: _ping_agent_with_anomalies        *)
(***************************************************************************)

\* Bounds of the model.
MaxAnomalies == 2        \* anomalies handed to one call
MaxDispatchTime == 30    \* the dispatcher's clock stops here

Severities == {"low", "medium", "high"}

\* An anomaly as the dispatcher reads it: its metric, its severity, and
\* whether the dict carries delta and delta_pct keys.
Anomalies == [metric : Metrics, severity : Severities, has_delta : BOOLEAN]

\* The clock of the dispatcher advances in these steps (seconds).
DispatchTickSteps == {15}

\* Mutant: the filter also asks for the delta and delta_pct keys.
significant_with_delta(anomalies) ==
    LET keep(a) == a.severity \in {"high", "medium"} /\ a.has_delta
    IN  SelectSeq(anomalies, keep)

\* Mutant: the filter also drops an anomaly whose metric was handed to
\* broadcast less than 30 seconds ago.
significant_off_cooldown(anomalies) ==
    LET keep(a) == /\ a.severity \in {"high", "medium"}
                   /\ \/ d_stamp[a.metric] = -1
                      \/ d_now - d_stamp[a.metric] >= 30
    IN  SelectSeq(anomalies, keep)

\* Mutant: no filter, every anomaly of the list is dispatched.
significant_unfiltered(anomalies) == anomalies

\* significant_anomalies of _ping_agent_with_anomalies: the one filter.
significant_anomalies(anomalies) ==
    LET keep(a) == a.severity \in {"high", "medium"}
    IN  SelectSeq(anomalies, keep)

\* _run_cycle gathers what its checks found into anomalies_detected (a
\* caller of the dispatcher may hand it any list of anomaly dicts).
Collect(a) ==
    /\ d_call = NoCall
    /\ Len(d_anomalies) < MaxAnomalies
    /\ d_anomalies' = Append(d_anomalies, a)
    /\ UNCHANGED <<d_ws, d_agent, d_now, d_stamp, d_call>>

\* _ping_agent_with_anomalies(anomalies): nothing for an empty list or one
\* with no significant anomaly; else the ANOMALY_ALERT carrying the
\* significant anomalies goes to ws_manager.broadcast when the manager has
\* that method (an exception of broadcast is caught), and
\* _inject_agent_message, which only logs, is called when an
\* agent_session_manager is set.
ping_agent_with_anomalies(anomalies, raised) ==
    LET significant == significant_anomalies(anomalies)
        handed == significant # << >> /\ d_ws = "broadcast"
    IN  /\ d_call = NoCall
        /\ raised => handed
        /\ d_call' = [at |-> d_now,
                      broadcast |-> IF handed THEN significant ELSE << >>,
                      delivered |-> handed /\ ~raised,
                      inject_called |-> significant # << >> /\ d_agent,
                      prev |-> d_stamp]
        /\ d_stamp' =
              [m \in Metrics |->
                  IF handed /\ \E i \in DOMAIN significant :
                                  significant[i].metric = m
                  THEN d_now ELSE d_stamp[m]]
        /\ UNCHANGED <<d_ws, d_agent, d_now, d_anomalies>>

\* The next cycle starts with an empty anomalies_detected.
NextCycle ==
    /\ d_call # NoCall
    /\ d_anomalies' = << >>
    /\ d_call' = NoCall
    /\ UNCHANGED <<d_ws, d_agent, d_now, d_stamp>>

\* Time passes between two calls.
DispatchTick(d) ==
    /\ d_now + d <= MaxDispatchTime
    /\ d_now' = d_now + d
    /\ UNCHANGED <<d_ws, d_agent, d_stamp, d_anomalies, d_call>>

\* AnomalyWorker(websocket_manager, agent_session_manager): both optional.
\* A voice session may be registered while the worker runs.
InitDispatch ==
    /\ AnomalyIdle
    /\ RiskIdle
    /\ MonitorIdle
    /\ SessionIdle \/ SessionRegistered
    /\ VoiceIdle
    /\ WorkersIdle
    /\ d_ws \in {"None", "broadcast", "other"}
    /\ d_agent \in BOOLEAN
    /\ d_now = 0
    /\ d_stamp = [m \in Metrics |-> -1]
    /\ d_anomalies = << >>
    /\ d_call = NoCall

NextDispatch ==
    /\ \/ \E a \in Anomalies : Collect(a)
       \/ \E raised \in BOOLEAN :
             ping_agent_with_anomalies(d_anomalies, raised)
       \/ NextCycle
       \/ \E d \in DispatchTickSteps : DispatchTick(d)
    /\ UNCHANGED <<anomalyVars, riskVars, monitorVars, sessionVars,
                   voiceVars, workerVars>>

SpecDispatch == InitDispatch /\ [][NextDispatch]_vars

(***************************************************************************)
(* Properties of the dispatcher (checked under SpecDispatch)               *)
(***************************************************************************)

\* A call has been made.
Called == d_call.at # -1

\* The anomaly was in the payload handed to broadcast.
InBroadcast(a) == \E j \in DOMAIN d_call.broadcast : d_call.broadcast[j] = a

\* The metric had been handed to broadcast less than 30 seconds before
\* the call.
RecentlyDispatched(m) ==
    d_call.prev[m] # -1 /\ d_call.at - d_call.prev[m] < 30

C17_AlertRoutedToSpeak ==
    (Called /\ d_call.broadcast # << >> /\ current_session # 0) =>
        (s_pc # "idle" \/ speak_ret # "none")

\* C29: what the worker hands to broadcast holds anomalies of severity
\* medium or high only, _inject_agent_message is called only for a list
\* with such an anomaly, and a call whose anomalies are all of severity low
\* (or that has none) broadcasts nothing and injects nothing.
C29_OnlyMediumOrHigh ==
    Called =>
        /\ \A j \in DOMAIN d_call.broadcast :
              d_call.broadcast[j].severity \in {"medium", "high"}
        /\ (\A i \in DOMAIN d_anomalies : d_anomalies[i].severity = "low") =>
              /\ d_call.broadcast = << >>
              /\ ~d_call.delivered
              /\ ~d_call.inject_called
        /\ (d_call.delivered \/ d_call.inject_called) =>
              \E i \in DOMAIN d_anomalies :
                  d_anomalies[i].severity \in {"medium", "high"}

\* C29 witness: a worker with a broadcasting manager and an agent session
\* manager was handed two low anomalies and dispatched nothing.
C29_Witness ==
    /\ Called
    /\ d_ws = "broadcast"
    /\ d_agent
    /\ Len(d_anomalies) = 2
    /\ \A i \in DOMAIN d_anomalies : d_anomalies[i].severity = "low"
    /\ d_call.broadcast = << >>
    /\ ~d_call.delivered
    /\ ~d_call.inject_called

(***************************************************************************)
(* AnomalyMonitor                                                          *)
(***************************************************************************)

\* Bounds of the model (with WindowSize).
MaxCalls == 5            \* add_metric_value / detect_anomalies calls in a run
MaxTime == 60            \* the clock stops here

\* Program constants.
MinHistory == 3                  \* len(history) < 3
anomaly_cooldown_seconds == 60

\* Values fed to the monitor, per metric.  With the window <<0, 2, 4>>
\* (mean 2, sample standard deviation 2) the value 7 has z = 2.5 exactly;
\* with the window <<0, 1, 2>> (mean 1, standard deviation 1) the value 4
\* has z = 3 exactly.  0 exercises the previous_value = 0 branch.
ValuesOf(m) == IF m = "btc_price" THEN {0, 2, 4, 7} ELSE {0, 1, 2, 4}

\* rate_of_change_threshold as a fraction <<numerator, denominator>>:
\* the default 0.05.
Thresholds == {<<5, 100>>}

\* The clock advances in these steps (seconds).
TickSteps == {59, 60}

\* Mutant: a plain list, which never evicts.
DequeAppendNoEvict(h, v) == Append(h, v)

\* deque(maxlen=window_size).append(value): the oldest sample is evicted
\* when the window is full.
DequeAppend(h, v) == LastN(Append(h, v), window_size)

\* The window of m: empty while the metric has no deque yet.
HistOf(hist, m) == IF m \in DOMAIN hist THEN hist[m] ELSE << >>

\* Mutant: the value lands in the window of every metric.
AddValueEverywhere(hist, m, v) ==
    [x \in (DOMAIN hist) \cup {m} |-> DequeAppend(HistOf(hist, x), v)]

\* add_metric_value: creates the deque on first use, then appends.
AddValue(hist, m, v) == Put(hist, m, DequeAppend(HistOf(hist, m), v))

\* n * (current - mean) for the window h; mean = Sum(h) / n.
Dev(h, cur) == Len(h) * cur - Sum(h)

\* n * (n - 1) * variance of the window, that is n * SumSq(h) - Sum(h)^2,
\* computed from the deviations n * h[i] - Sum(h) (whose squares add up to
\* n times that number) to keep the intermediate values small; stdev > 0
\* iff this is > 0.
SqDev(h) ==
    LET n == Len(h)
        d == [i \in 1..n |-> n * h[i] - Sum(h)]
    IN  IF n = 0 THEN 0 ELSE SumSq(d) \div n

\* Mutant: detection method 1 never runs.
StdevNeverPositive(h) == FALSE

\* `stdev > 0`, with stdev = 0 for a single sample.
StdevPositive(h) == Len(h) > 1 /\ SqDev(h) > 0

\* z_score >= num/den, with z = |cur - mean| / stdev and
\* z^2 = Dev^2 * (n - 1) / (n * SqDev).
ZAtLeast(h, cur, num, den) ==
    den * den * (Len(h) - 1) * Dev(h, cur) * Dev(h, cur)
        >= num * num * Len(h) * SqDev(h)

\* rate_of_change >= num/den, with rate = |cur - prev| / |prev| and rate = 0
\* when prev = 0.
RateAtLeast(prev, cur, num, den) ==
    IF prev = 0 THEN num <= 0
    ELSE den * Abs(cur - prev) >= num * Abs(prev)

\* Mutant: the z-score threshold taken as exclusive (z > 2.5).
OutlierSeverityExclusive(h, cur) ==
    IF StdevPositive(h) /\ ~ZAtLeast(h, cur, 5, 2) THEN "None"
    ELSE IF StdevPositive(h) /\ 4 * (Len(h) - 1) * Dev(h, cur) * Dev(h, cur)
                                  > 25 * Len(h) * SqDev(h)
    THEN IF ZAtLeast(h, cur, 3, 1) THEN "high" ELSE "medium"
    ELSE "None"

\* Mutant: a z-score threshold of 3.
OutlierSeverityFromThree(h, cur) ==
    IF StdevPositive(h) /\ ZAtLeast(h, cur, 3, 1) THEN "high" ELSE "None"

\* Detection method 1 (statistical outlier): the severity, or "None".
OutlierSeverity(h, cur) ==
    IF StdevPositive(h) /\ ZAtLeast(h, cur, 5, 2)
    THEN IF ZAtLeast(h, cur, 4, 1) THEN "high"
         ELSE IF ZAtLeast(h, cur, 3, 1) THEN "high"
         ELSE "medium"
    ELSE "None"

\* Mutant: a reversal of exactly twice the previous move counts as well.
IsTrendBreakInclusive(h, cur) ==
    LET recent_trend == h[Len(h)] - h[Len(h) - 1]
        current_trend == cur - h[Len(h)]
    IN  \/ (recent_trend > 0 /\ current_trend <= -recent_trend * 2)
        \/ (recent_trend < 0 /\ current_trend >= -recent_trend * 2)

\* The reversal test of detection method 2.
IsTrendBreak(h, cur) ==
    LET recent_trend == h[Len(h)] - h[Len(h) - 1]
        current_trend == cur - h[Len(h)]
    IN  \/ (recent_trend > 0 /\ current_trend < -recent_trend * 2)
        \/ (recent_trend < 0 /\ current_trend > -recent_trend * 2)

\* Mutant: every sudden change graded as on a short history (high or medium,
\* never low).
RateAnomalyTwoBands(m, h, cur, thr) ==
    LET prev == h[Len(h)]
        hi(n) == RateAtLeast(prev, cur, n, 100)
    IN  IF ~RateAtLeast(prev, cur, thr[1], thr[2]) THEN None
        ELSE IF Len(h) >= 3 /\ IsTrendBreak(h, cur)
        THEN [anomaly_type |-> "trend_break", metric |-> m,
              current_value |-> cur,
              severity |-> IF hi(10) THEN "high" ELSE "medium"]
        ELSE [anomaly_type |-> "sudden_change", metric |-> m,
              current_value |-> cur,
              severity |-> IF hi(15) THEN "high" ELSE "medium"]

\* Detection method 2 (rate of change), run only when method 1 found nothing.
RateAnomaly(m, h, cur, thr) ==
    LET prev == h[Len(h)]
        hi(n) == RateAtLeast(prev, cur, n, 100)
    IN  IF ~RateAtLeast(prev, cur, thr[1], thr[2]) THEN None
        ELSE IF Len(h) >= 3
        THEN IF IsTrendBreak(h, cur)
             THEN [anomaly_type |-> "trend_break", metric |-> m,
                   current_value |-> cur,
                   severity |-> IF hi(10) THEN "high" ELSE "medium"]
             ELSE [anomaly_type |-> "sudden_change", metric |-> m,
                   current_value |-> cur,
                   severity |-> IF hi(15) THEN "high"
                                ELSE IF hi(8) THEN "medium" ELSE "low"]
        ELSE [anomaly_type |-> "sudden_change", metric |-> m,
              current_value |-> cur,
              severity |-> IF hi(15) THEN "high" ELSE "medium"]

\* Mutant: method 2 runs after an outlier too and replaces it when its own
\* finding is of severity high.
EvaluateRateOverrides(m, h, cur, thr) ==
    LET outlier == [anomaly_type |-> "outlier", metric |-> m,
                    current_value |-> cur,
                    severity |-> OutlierSeverity(h, cur)]
        by_rate == IF Len(h) >= 2 THEN RateAnomaly(m, h, cur, thr) ELSE None
    IN  IF OutlierSeverity(h, cur) = "None" THEN by_rate
        ELSE IF by_rate # None /\ by_rate.severity = "high" THEN by_rate
        ELSE outlier

\* The evaluation of detect_anomalies once the history is long enough and no
\* cooldown is active: the anomaly found, or None.
Evaluate(m, h, cur, thr) ==
    IF OutlierSeverity(h, cur) # "None"
    THEN [anomaly_type |-> "outlier", metric |-> m, current_value |-> cur,
          severity |-> OutlierSeverity(h, cur)]
    ELSE IF Len(h) >= 2 THEN RateAnomaly(m, h, cur, thr)
    ELSE None

\* Mutant: a cooldown that still holds at exactly 60 seconds.
InCooldownInclusive(last, m, t) ==
    m \in DOMAIN last /\ t - last[m] <= anomaly_cooldown_seconds

\* Mutant: a cooldown that is over by the next cycle of the worker.
InCooldownBrief(last, m, t) ==
    m \in DOMAIN last /\ t - last[m] < 5

\* The cooldown test of detect_anomalies.
InCooldown(last, m, t) ==
    m \in DOMAIN last /\ t - last[m] < anomaly_cooldown_seconds

\* Mutant: the minimum-history test left out.
DetectResultNoMinimum(hist, last, t, m, cur, thr) ==
    IF m \notin DOMAIN hist THEN None
    ELSE IF InCooldown(last, m, t) THEN None
    ELSE Evaluate(m, hist[m], cur, thr)

\* What detect_anomalies(m, cur, thr) returns in the state (hist, last) at
\* time t.
DetectResult(hist, last, t, m, cur, thr) ==
    IF m \notin DOMAIN hist THEN None
    ELSE IF Len(hist[m]) < MinHistory THEN None
    ELSE IF InCooldown(last, m, t) THEN None
    ELSE Evaluate(m, hist[m], cur, thr)

Calls == Len(recorded["btc_price"]) + Len(recorded["portfolio_balance"])

InitAnomaly ==
    AnomalyIdle /\ RiskIdle /\ MonitorIdle /\ SessionIdle /\ VoiceIdle
    /\ WorkersIdle
    /\ DispatchIdle

\* monitor.add_metric_value(m, v)
add_metric_value(m, v) ==
    /\ Calls < MaxCalls
    /\ metric_history' = AddValue(metric_history, m, v)
    /\ recorded' = [recorded EXCEPT ![m] = Append(@, v)]
    /\ call' = [op |-> "add", metric |-> m, value |-> v, at |-> now,
                history |-> metric_history, last |-> last_anomaly_time,
                alarm |-> last_alarm[m]]
    /\ UNCHANGED <<last_anomaly_time, window_size, now, ret, last_alarm>>

\* What one detect_anomalies call does to the monitor: the value joins the
\* window on every path, and a returned anomaly stamps last_anomaly_time.
DetectCall(m, v, thr) ==
    LET anomaly == DetectResult(metric_history, last_anomaly_time, now,
                                m, v, thr)
    IN  /\ metric_history' = AddValue(metric_history, m, v)
        /\ recorded' = [recorded EXCEPT ![m] = Append(@, v)]
        /\ last_anomaly_time' =
              IF anomaly # None THEN Put(last_anomaly_time, m, now)
              ELSE last_anomaly_time
        /\ ret' = anomaly
        /\ last_alarm' =
              IF anomaly # None THEN [last_alarm EXCEPT ![m] = now]
              ELSE last_alarm
        /\ call' = [op |-> "detect", metric |-> m, value |-> v, at |-> now,
                    thr |-> thr,
                    history |-> metric_history, last |-> last_anomaly_time,
                    alarm |-> last_alarm[m]]

\* monitor.detect_anomalies(m, v, rate_of_change_threshold = thr)
detect_anomalies(m, v, thr) ==
    /\ Calls < MaxCalls
    /\ DetectCall(m, v, thr)
    /\ UNCHANGED <<window_size, now>>

\* Time passes between calls.
Tick(d) ==
    /\ now + d <= MaxTime
    /\ now' = now + d
    /\ UNCHANGED <<metric_history, last_anomaly_time, window_size, ret, call,
                   recorded, last_alarm>>

NextAnomaly ==
    /\ \/ \E m \in Metrics : \E v \in ValuesOf(m) : add_metric_value(m, v)
       \/ \E m \in Metrics : \E v \in ValuesOf(m), thr \in Thresholds :
             detect_anomalies(m, v, thr)
       \/ \E d \in TickSteps : Tick(d)
    /\ UNCHANGED <<riskVars, monitorVars, sessionVars, voiceVars,
                   workerVars, dispatchVars>>

SpecAnomaly == InitAnomaly /\ [][NextAnomaly]_vars

(***************************************************************************)
(* Properties of the AnomalyMonitor (checked under SpecAnomaly)            *)
(***************************************************************************)

\* The last call was detect_anomalies.
IsDetect == call.op = "detect"

\* The window of the called metric before the last call.
Before == HistOf(call.history, call.metric)

\* The last call found the detector's cooldown over (or never started): no
\* anomaly was returned for the metric in the 60 seconds before the call.
NoRecentAlarm ==
    call.alarm = -1 \/ call.at - call.alarm >= 60

\* C1: a metric's history never holds more than window_size samples and
\* always equals the most recent min(n, window_size) recorded values of the
\* metric, in the order they were recorded.
C1_WindowBound ==
    \A m \in Metrics :
        /\ Len(HistOf(metric_history, m)) <= WindowSize
        /\ Len(HistOf(metric_history, m)) = Min(Len(recorded[m]), WindowSize)
        /\ \A i \in 1..Len(HistOf(metric_history, m)) :
              HistOf(metric_history, m)[i] =
                 recorded[m][Len(recorded[m])
                             - Len(HistOf(metric_history, m)) + i]

\* C1 witness: more values than the window holds were recorded to one
\* metric, through both entry points, so the oldest were evicted.
C1_Witness ==
    /\ IsDetect
    /\ Len(recorded[call.metric]) = WindowSize + 2
    /\ Len(metric_history[call.metric]) = WindowSize
    /\ recorded[call.metric][1] # metric_history[call.metric][1]

C3_InsufficientBaseline ==
    (IsDetect /\ Len(Before) < 3) =>
        /\ ret = None
        /\ metric_history[call.metric] = Append(Before, call.value)
        /\ last_anomaly_time = call.last

\* C3 witness: two samples and a value that would be an anomaly against
\* them, had they been evaluated.
C3_Witness ==
    /\ IsDetect
    /\ Len(Before) = 2
    /\ Evaluate(call.metric, Before, call.value, call.thr) # None
    /\ ret = None

C23_DetectFrame ==
    IsDetect =>
        LET m == call.metric
            after == metric_history[m]
        IN  /\ after = LastN(Append(Before, call.value), window_size)
            /\ after[Len(after)] = call.value
            /\ DOMAIN metric_history = (DOMAIN call.history) \cup {m}
            /\ \A o \in (DOMAIN call.history) \ {m} :
                  metric_history[o] = call.history[o]
            /\ last_anomaly_time =
                  IF ret # None THEN Put(call.last, m, call.at) ELSE call.last

\* C23 witness: a call that returned an anomaly while another metric had a
\* window of its own.
C23_Witness ==
    /\ IsDetect
    /\ ret # None
    /\ last_anomaly_time[call.metric] = call.at
    /\ \E o \in (DOMAIN metric_history) \ {call.metric} :
          metric_history[o] # << >>

(***************************************************************************)
(* detect_anomalies on a monitor that already holds three samples of       *)
(* btc_price: the rate-of-change check (detection method 2) on values      *)
(* around 100, where the rates 0.05, 0.08, 0.10 and 0.15 are whole numbers *)
(* of units.                                                               *)
(***************************************************************************)

\* Samples the window is seeded with.  <<100, 100, 100>> has stdev 0 (method
\* 1 is skipped) and a previous move of 0; <<60, 97, 100>> and
\* <<60, 98, 100>> have a wide spread (no outlier near 100) and a previous
\* move of +3 and +2.
RateSamples == {60, 97, 98, 100}

\* Values passed to detect_anomalies: from 100 they are moves of -10%, -9%,
\* -6%, -5%, -4%, +4%, +5%, +7%, +8%, +10%, +14%, +15% and +21%.
RateValues == {90, 91, 94, 95, 96, 104, 105, 107, 108, 110, 114, 115, 121}

\* A monitor whose btc_price window holds three samples, no anomaly raised
\* so far.
InitRate ==
    /\ RiskIdle
    /\ MonitorIdle
    /\ SessionIdle
    /\ VoiceIdle
    /\ WorkersIdle
    /\ DispatchIdle
    /\ window_size = WindowSize
    /\ metric_history \in
          {[m \in {"btc_price"} |-> h] : h \in [1..MinHistory -> RateSamples]}
    /\ last_anomaly_time = << >>
    /\ now = 0
    /\ ret = None
    /\ call = [op |-> "init"]
    /\ recorded = [m \in Metrics |-> << >>]
    /\ last_alarm = [m \in Metrics |-> -1]

\* One detect_anomalies call on the seeded window.
NextRate ==
    /\ Calls = 0
    /\ \E v \in RateValues, thr \in Thresholds :
          detect_anomalies("btc_price", v, thr)
    /\ UNCHANGED <<riskVars, monitorVars, sessionVars, voiceVars,
                   workerVars, dispatchVars>>

SpecRate == InitRate /\ [][NextRate]_vars

(***************************************************************************)
(* Properties of the rate-of-change check (checked under SpecRate)         *)
(***************************************************************************)

\* The most recent sample before the last call, the move that led to it and
\* the move the call's value makes.
PreviousValue == Before[Len(Before)]
PreviousMove == Before[Len(Before)] - Before[Len(Before) - 1]
NewMove == call.value - PreviousValue

\* rate >= pct / 100, with rate = |current - previous| / previous.
RatePercentAtLeast(pct) ==
    100 * Abs(call.value - PreviousValue) >= pct * PreviousValue

\* The last call ran the detection (enough history, no cooldown) and found
\* no outlier.
NoOutlier ==
    /\ IsDetect
    /\ Len(Before) >= 3
    /\ NoRecentAlarm
    /\ PreviousValue > 0
    /\ ret.anomaly_type # "outlier"

\* The rate-of-change check fired: no outlier and rate >= threshold.
RateFired ==
    NoOutlier /\ call.thr[2] * Abs(NewMove) >= call.thr[1] * PreviousValue

\* The two moves have opposite signs.
OppositeMoves ==
    (PreviousMove > 0 /\ NewMove < 0) \/ (PreviousMove < 0 /\ NewMove > 0)

\* C24 as stated: when the rate-of-change check fires, the anomaly is a
\* trend_break exactly when the two moves have opposite signs and the new
\* move is at least twice the previous one in magnitude (exactly twice
\* included), with severity high if rate >= 0.10 and medium otherwise; in
\* every other case it is a sudden_change.
C24_TrendBreakAtLeastDouble ==
    RateFired =>
        IF OppositeMoves /\ Abs(NewMove) >= 2 * Abs(PreviousMove)
        THEN /\ ret.anomaly_type = "trend_break"
             /\ ret.severity = IF RatePercentAtLeast(10) THEN "high"
                               ELSE "medium"
        ELSE ret.anomaly_type = "sudden_change"

\* C24 (amended): when the rate-of-change check fires, the anomaly is a
\* trend_break exactly when the two moves have opposite signs and the new
\* move is more than twice the previous one in magnitude, with severity
\* high if rate >= 0.10 and medium otherwise; in every other case, a move
\* of exactly twice the previous one included, it is a sudden_change.
C24_TrendBreakMoreThanDouble ==
    RateFired =>
        IF OppositeMoves /\ Abs(NewMove) > 2 * Abs(PreviousMove)
        THEN /\ ret.anomaly_type = "trend_break"
             /\ ret.severity = IF RatePercentAtLeast(10) THEN "high"
                               ELSE "medium"
        ELSE ret.anomaly_type = "sudden_change"

\* C24 witness: after <<60, 98, 100>> (previous move +2) the value 95 (new
\* move -5, rate 0.05) is reported as a medium trend_break.
C24_Witness ==
    /\ RateFired
    /\ PreviousMove = 2
    /\ NewMove = -5
    /\ ret.anomaly_type = "trend_break"
    /\ ret.severity = "medium"

\* C25: when no outlier is found, a rate below the threshold reports
\* nothing; a rate at or above it that is not a trend break reports a
\* sudden_change of severity high if rate >= 0.15, medium if
\* 0.08 <= rate < 0.15 and low otherwise.
C25_SuddenChangeBands ==
    NoOutlier =>
        /\ ~RateFired => ret = None
        /\ (RateFired /\ ret.anomaly_type # "trend_break") =>
              /\ ret.anomaly_type = "sudden_change"
              /\ ret.severity = IF RatePercentAtLeast(15) THEN "high"
                                ELSE IF RatePercentAtLeast(8) THEN "medium"
                                ELSE "low"

\* C25 witness: after <<100, 100, 100>> the value 107 (rate 0.07, between
\* the threshold and 0.08) is reported as a low sudden_change.
C25_Witness ==
    /\ NoOutlier
    /\ Before = <<100, 100, 100>>
    /\ call.value = 107
    /\ ret.anomaly_type = "sudden_change"
    /\ ret.severity = "low"

TestWindowSize == 5

\* [96500.00, 96550.00, 96520.00, 96530.00, 96540.00]
baseline_prices == <<9650, 9655, 9652, 9653, 9654>>

normal_price == 9658      \* 96580.00
spike_price == 10050      \* 100500.00
drop_price == 9200        \* 92000.00
outlier_price == 10500    \* 105000.00

TestPrices == {normal_price, spike_price, drop_price, outlier_price}

\* The monitor of the test once the baseline is recorded; recorded and call
\* start afresh there.
InitTest ==
    /\ RiskIdle
    /\ MonitorIdle
    /\ SessionIdle
    /\ VoiceIdle
    /\ WorkersIdle
    /\ DispatchIdle
    /\ window_size = TestWindowSize
    /\ metric_history = [m \in {"btc_price"} |-> baseline_prices]
    /\ last_anomaly_time = << >>
    /\ now = 0
    /\ ret = None
    /\ call = [op |-> "init"]
    /\ recorded = [m \in Metrics |-> << >>]
    /\ last_alarm = [m \in Metrics |-> -1]

NextTest ==
    /\ \/ \E price \in TestPrices, thr \in Thresholds :
             detect_anomalies("btc_price", price, thr)
       \/ \E d \in TickSteps : Tick(d)
    /\ UNCHANGED <<riskVars, monitorVars, sessionVars, voiceVars,
                   workerVars, dispatchVars>>

SpecTest == InitTest /\ [][NextTest]_vars

(***************************************************************************)
(* Properties of the test's scenario (checked under SpecTest)              *)
(***************************************************************************)

\* The last call was detect_anomalies("btc_price", price) on the baseline
\* window with no anomaly before it.
OnBaseline(price) ==
    /\ call.op = "detect"
    /\ call.value = price
    /\ call.history["btc_price"] = baseline_prices
    /\ call.last = << >>

\* C18: with history [96500, 96550, 96520, 96530, 96540] and no prior
\* anomaly, detect_anomalies(metric, 100500) returns an anomaly of type
\* sudden_change or outlier and of severity medium or high.
C18_SpikeOnBaseline ==
    OnBaseline(spike_price) =>
        /\ ret.anomaly_type \in {"sudden_change", "outlier"}
        /\ ret.severity \in {"medium", "high"}

\* C18 witness: the call returned a high outlier (the move, 4.1%, is below
\* the rate-of-change threshold).
C18_Witness ==
    /\ OnBaseline(spike_price)
    /\ ret.anomaly_type = "outlier"
    /\ ret.severity = "high"
    /\ ~RateAtLeast(baseline_prices[5], spike_price, 5, 100)

\* C19: after the baseline is recorded, detect_anomalies returns None for
\* the normal value 96580, a 0.04% move from the latest sample.
C19_NormalPriceReturnsNone ==
    OnBaseline(normal_price) => ret = None

\* The calls made so far are the first ones of the test, with or without
\* its Test 1 (the normal price) before the spike.
TestOrder ==
    \E k \in 1..3 :
        \/ recorded["btc_price"] =
              SubSeq(<<spike_price, drop_price, outlier_price>>, 1, k)
        \/ recorded["btc_price"] =
              <<normal_price>>
                  \o SubSeq(<<spike_price, drop_price, outlier_price>>, 1, k)

\* C20: the spike, the drop and the far outlier, fed one after the other,
\* each return an anomaly, however soon one call follows the other.
C20_EachReturnsAnomaly ==
    (call.op = "detect" /\ TestOrder) => ret # None

(***************************************************************************)
(* The anomaly worker's loop on one metric: every cycle hands the metric's *)
(* current value to the shared AnomalyMonitor (window_size 10, cooldown 60 *)
(* seconds: the defaults get_anomaly_monitor constructs it with), keeps    *)
(* the anomaly in anomalies_detected when its severity is high or medium,  *)
(* and sleeps interval_seconds.  The time a cycle itself takes is left     *)
(* out: cycles are exactly interval_seconds apart.                         *)
(***************************************************************************)

\* Bounds of the model.
MaxObservations == 14    \* cycles of the worker in a run
MaxChanges == 2          \* times the metric changes its value in a run

\* Program constants.
DefaultWindowSize == 10          \* AnomalyMonitor(window_size=10)
interval_seconds == 5            \* AnomalyWorker.interval_seconds
BtcThreshold == <<3, 100>>       \* rate_of_change_threshold=0.03

\* Values of btc_price: the base value, and steps of -1% and +1% (below the
\* threshold), 6% (a low sudden change) and 30% from it.
BaseValues == {100}
CadenceValues == {99, 100, 101, 106, 130}

\* The number of places where a sequence of values changes.
Changes(s) == Cardinality({i \in 2..Len(s) : s[i] # s[i - 1]})

\* Mutant: the worker keeps every anomaly the detector returns.
SignificantAny(anomaly) == anomaly # None

\* `price_anomaly and price_anomaly["severity"] in ["high", "medium"]`
Significant(anomaly) ==
    anomaly # None /\ anomaly.severity \in {"high", "medium"}

\* Observations of the base value before the run: none, the least the
\* detector evaluates, a full window.
CadenceSeeds == {0, 3, 10}

\* The worker has observed the metric at the base value n times, with no
\* anomaly so far.
InitCadence ==
    /\ RiskIdle
    /\ MonitorIdle
    /\ SessionIdle
    /\ VoiceIdle
    /\ WorkersIdle
    /\ DispatchIdle
    /\ window_size = DefaultWindowSize
    /\ \E n \in CadenceSeeds, base \in BaseValues :
          LET seen == [i \in 1..n |-> base]
          IN  /\ metric_history =
                    IF n = 0 THEN << >> ELSE [m \in {"btc_price"} |-> seen]
              /\ recorded = [m \in Metrics |->
                                IF m = "btc_price" THEN seen ELSE << >>]
    /\ last_anomaly_time = << >>
    /\ now = 0
    /\ ret = None
    /\ call = [op |-> "init"]
    /\ last_alarm = [m \in Metrics |-> -1]

\* One cycle of the worker on btc_price (_check_market_anomalies): the
\* detect_anomalies call, the severity filter, then the sleep of start().
check_btc_price(v) ==
    LET anomaly == DetectResult(metric_history, last_anomaly_time, now,
                                "btc_price", v, BtcThreshold)
    IN  /\ now < interval_seconds * MaxObservations
        /\ Changes(Append(recorded["btc_price"], v)) <= MaxChanges
        /\ DetectCall("btc_price", v, BtcThreshold)
        /\ d_anomalies' =
              IF Significant(anomaly)
              THEN << [metric |-> "btc_price", severity |-> anomaly.severity,
                       has_delta |-> FALSE] >>
              ELSE << >>
        /\ now' = now + interval_seconds
        /\ UNCHANGED <<window_size, d_ws, d_agent, d_now, d_stamp, d_call>>

NextCadence ==
    /\ \E v \in CadenceValues : check_btc_price(v)
    /\ UNCHANGED <<riskVars, monitorVars, sessionVars, voiceVars,
                   workerVars>>

SpecCadence == InitCadence /\ [][NextCadence]_vars

(***************************************************************************)
(* Properties of the worker's loop (checked under SpecCadence)             *)
(***************************************************************************)

\* The values btc_price has had, the ones before the run included.
Seen == recorded["btc_price"]

\* A window of n samples of value a.
Flat(n, a) == [i \in 1..n |-> a]

\* C32: on a window of 10 identical values (no cooldown active), the first
\* observation of a new value less than the rate-of-change threshold away
\* returns None, and the second observation of that value returns a medium
\* outlier, however small the step.
C32_SecondObservationOutlier ==
    LET a == Before[1]
        v == call.value
    IN  (/\ IsDetect
         /\ NoRecentAlarm
         /\ Len(Before) = 10
         /\ v # a
         /\ call.thr[2] * Abs(v - a) < call.thr[1] * a) =>
            /\ Before = Flat(10, a) => ret = None
            /\ Before = Flat(9, a) \o <<v>> =>
                  (ret.anomaly_type = "outlier" /\ ret.severity = "medium")

\* C32 witness: the second observation of 101 after ten of 100 returned a
\* medium outlier.
C32_Witness ==
    /\ IsDetect
    /\ Before = Flat(9, 100) \o <<101>>
    /\ call.value = 101
    /\ call.alarm = -1
    /\ ret.anomaly_type = "outlier"
    /\ ret.severity = "medium"
    /\ d_anomalies # << >>

\* C33: while the metric has changed its value at most once, an anomaly
\* the detector returns is the first it has returned; and a call made 60
\* seconds or more after that anomaly finds a window that holds only the
\* new value, and returns None.
C33_OneAnomalyPerChange ==
    (IsDetect /\ Changes(Seen) <= 1) =>
        /\ ret # None => call.alarm = -1
        /\ (call.alarm # -1 /\ call.at - call.alarm >= 60) =>
              /\ Before = Flat(10, call.value)
              /\ ret = None

\* C33 witness: the metric went from 100 to 130 once, an anomaly was
\* returned, and the first call after the cooldown returned None.
C33_Witness ==
    /\ IsDetect
    /\ Changes(Seen) = 1
    /\ call.value = 130
    /\ call.alarm # -1
    /\ call.at - call.alarm = 60
    /\ last_anomaly_time["btc_price"] = call.alarm
    /\ ret = None

\* C34: an anomaly of severity low is returned by the detector and stamps
\* the metric's cooldown although the worker does not keep it; and a call
\* made less than 60 seconds after a returned anomaly, a low one included,
\* returns None and the worker keeps nothing, whatever the deviation.
C34_LowStartsCooldown ==
    IsDetect =>
        /\ (ret # None /\ ret.severity = "low") =>
              /\ last_anomaly_time["btc_price"] = call.at
              /\ d_anomalies = << >>
        /\ (call.alarm # -1 /\ call.at - call.alarm < 60) =>
              /\ ret = None
              /\ d_anomalies = << >>
              /\ last_anomaly_time = call.last

\* C34 witness: 100, 100, 100, then 106 (a low sudden change, discarded)
\* and five seconds later 130, which the detector would grade high but
\* for the cooldown: nothing is returned and nothing is kept.
C34_Witness ==
    /\ IsDetect
    /\ Seen = <<100, 100, 100, 106, 130>>
    /\ call.alarm = call.at - 5
    /\ Evaluate("btc_price", Before, 130, BtcThreshold).severity = "high"
    /\ ret = None
    /\ d_anomalies = << >>

(***************************************************************************)
(* voice_session_manager.speak among the handlers that register and        *)
(* unregister: speak reads the module's current_session at each use, and   *)
(* the handlers run whenever speak is suspended in an await.  What speak   *)
(* calls on a session is appended to session_log; the session's own work   *)
(* (the agent, the synthesis) is left out.  One speak call per run.        *)
(***************************************************************************)

\* speak(text, alert_context) up to its first await: False with no
\* session; else current_session.process_system_alert(...), or
\* current_session.send_message({"type": "agent_text", ...}).
speak_enter(with_context) ==
    /\ s_pc = "idle"
    /\ speak_ret = "none"
    /\ IF ~HasSession(current_session)
       THEN /\ speak_ret' = "False"
            /\ UNCHANGED <<s_pc, session_log>>
       ELSE /\ session_log' =
                  Append(session_log,
                         <<IF with_context THEN "process_system_alert"
                           ELSE "agent_text", current_session>>)
            /\ s_pc' = IF with_context THEN "alert_thinking" ELSE "sending"
            /\ UNCHANGED speak_ret
    /\ UNCHANGED <<current_session, conn_pc, conn_session>>

\* speak after `await current_session.send_message(...)`: the name
\* current_session is looked up again for speak_response; on None the
\* AttributeError is caught and speak returns False.
speak_after_send_message ==
    /\ s_pc = "sending"
    /\ IF current_session = 0
       THEN /\ speak_ret' = "False"
            /\ s_pc' = "idle"
            /\ UNCHANGED session_log
       ELSE /\ session_log' =
                  Append(session_log, <<"speak_response", current_session>>)
            /\ s_pc' = "inline"
            /\ UNCHANGED speak_ret
    /\ UNCHANGED <<current_session, conn_pc, conn_session>>

\* The awaited method of the session returned: speak returns True.
speak_return ==
    /\ s_pc \in {"alert_thinking", "inline"}
    /\ s_pc' = "idle"
    /\ speak_ret' = "True"
    /\ UNCHANGED <<current_session, conn_pc, conn_session, session_log>>

InitSpeak ==
    AnomalyIdle /\ RiskIdle /\ MonitorIdle /\ SessionIdle /\ VoiceIdle
    /\ WorkersIdle
    /\ DispatchIdle

NextSpeak ==
    \/ /\ \/ \E c \in Conns, is_start \in BOOLEAN : FirstMessage(c, is_start)
          \/ \E c \in Conns, success \in BOOLEAN : SessionStart(c, success)
          \/ \E c \in Conns, sent \in BOOLEAN : Ready(c, sent)
          \/ \E c \in Conns : Leave(c)
          \/ \E c \in Conns : Finally(c)
       /\ UNCHANGED <<anomalyVars, riskVars, monitorVars, voiceVars,
                      workerVars, dispatchVars>>
    \/ /\ \/ \E with_context \in BOOLEAN : speak_enter(with_context)
          \/ speak_after_send_message
          \/ speak_return
       /\ UNCHANGED <<anomalyVars, riskVars, monitorVars, workerVars,
                      dispatchVars, is_speaking, current_tts, tts_task,
                      speech, h_pc, h_task, a_pc, a_task, s_task, notified,
                      audio_from, audio, h_done, alert_found>>

SpecSpeak == InitSpeak /\ [][NextSpeak]_vars

(***************************************************************************)
(* Properties of speak among the handlers (checked under SpecSpeak)        *)
(***************************************************************************)

\* The positions of the log at which speak called a method of a session.
SpeakCalls ==
    { i \in 1..Len(session_log) :
        session_log[i][1] \in {"agent_text", "speak_response",
                               "process_system_alert"} }

\* C35: whatever the handlers do meanwhile, the calls one speak makes all
\* go to one session (the text message and the speech never go to two
\* different sessions), and a speak that has sent something does not end
\* in failure because current_session changed under it.
C35_SpeakTargetsOneSession ==
    /\ \A i \in SpeakCalls, j \in SpeakCalls :
          session_log[i][2] = session_log[j][2]
    /\ speak_ret = "False" => SpeakCalls = {}

====
